---------------------------- MODULE Spec2Model ----------------------------
(***************************************************************************)
(* A model of embedgdb, a GDB remote-serial-protocol stub.                 *)
(*                                                                         *)
(* The parser (lib/src/parser.rs) is a cursor over a borrowed byte slice;  *)
(* parse_packet is modelled statement by statement, the loops of           *)
(* parse_token and parse_until_end one iteration per step.  Bytes are      *)
(* their ASCII codes, slices are half-open 0-based ranges [lo, hi) of the  *)
(* input as in Rust, and a slice expression whose range is not inside the  *)
(* input is a panic, as it is in Rust.                                     *)
(***************************************************************************)
EXTENDS Integers, Sequences, FiniteSets, TLC

(***************************************************************************)
(* Bytes the code names.                                                   *)
(***************************************************************************)
NUL == 0
SPACE == 32
HASH == 35
DOLLAR == 36
PLUS == 43
COMMA == 44
MINUS == 45
COLON == 58
SEMICOLON == 59
QUESTION == 63
LOWER_G == 103
UPPER_G == 71
LOWER_M == 109
UPPER_M == 77
LOWER_V == 118
LOWER_Q == 113
DIGIT_0 == 48
DIGIT_9 == 57
LOWER_A == 97
LOWER_F == 102
UPPER_A == 65
UPPER_F == 70

(***************************************************************************)
(* Bounds of the model.                                                    *)
(***************************************************************************)
\* longest input made of arbitrary bytes of RawAlphabet
MaxRawLen == 4
\* longest payload of a framed input `$` payload `#` field
MaxPayload == 3

VARIABLES
    packet,     \* Parser.packet: the input slice
    current,    \* Parser.current: the cursor, 0-based
    pc,         \* position inside parse_packet, or "idle" / "returned" / "panic"
    start,      \* the cursor when the running call of parse_packet began
    tok_start,  \* the local `start` of parse_token / parse_until_end
    name,       \* the local `name` of parse_packet: a slice, once parsed
    args,       \* the local `args` of parse_packet: Option of a slice
    parsed,     \* the Parsed value the last call returned
    consulted,  \* whether the running/last call handed (name, args) to the registry
    stream,     \* the sink the caller replies into
    reply,      \* the result of the caller's last reply
    target      \* the Target the commands act on

vars == <<packet, current, pc, start, tok_start, name, args, parsed,
          consulted, stream, reply, target>>

(***************************************************************************)
(* Slices and options.                                                     *)
(***************************************************************************)
\* Option::None for a slice
NoSlice == [some |-> FALSE, lo |-> 0, hi |-> 0]

\* Some(&packet[lo..hi])
Slice(lo, hi) == [some |-> TRUE, lo |-> lo, hi |-> hi]

\* &p[lo..hi] is evaluated without a panic
SliceOk(p, lo, hi) == lo <= hi /\ hi <= Len(p)

\* the bytes of a slice of p
Bytes(p, s) == IF s.some THEN SubSeq(p, s.lo + 1, s.hi) ELSE <<>>

(***************************************************************************)
(* Errors (error.rs) and Commands values (command.rs).                     *)
(***************************************************************************)
Errors == {"MemoryFilledInterupt", "NotTerminated", "InvalidChecksum",
           "UnexpectedIntroduction", "CommandError", "OutOfDataError",
           "BadNumber", "InsufficientArguments", "AddressOutOfRange",
           "LengthMismatch"}

\* a Commands value: the variant, the error a Retransmit carries, and the
\* `fields` of the variant's ResponseWriter
Command(kind, error, fields) == [kind |-> kind, error |-> error, fields |-> fields]

\* Option::None for a Commands value
None == Command("None", "", <<>>)

RetransmitLast == Command("RetransmitLast", "", <<>>)

AcknowledgeLast == Command("AcknowledgeLast", "", <<>>)

\* Retransmit::new(error)
Retransmit(error) == Command("Retransmit", error, <<>>)

\* Acknowledge::new()
Acknowledge == Command("Acknowledge", "", <<>>)

\* Parsed::new(response, command)
Parsed(response, command) == [response |-> response, command |-> command]

\* no call of parse_packet has returned yet
NotParsed == Parsed(None, None)

\* Parser::retransmit(error)
retransmit(error) == Parsed(Retransmit(error), None)

\* Parsed::ack(command)
ack(command) == Parsed(Acknowledge, command)

(***************************************************************************)
(* The registry: SupportedCommands::commands, the default implementation.  *)
(***************************************************************************)
\* a registry that takes `m` for the write and `M` for the read
commands_swapped(n, a) ==
    CASE n = <<QUESTION>> -> ack(Command("Reason", "", <<>>))
      [] n = <<LOWER_G>> -> ack(Command("ReadRegister", "", <<>>))
      [] n = <<UPPER_G>> -> ack(Command("WriteRegister", "", a))
      [] n = <<LOWER_M>> -> ack(Command("WriteMemory", "", a))
      [] n = <<UPPER_M>> -> ack(Command("ReadMemory", "", a))
      [] OTHER -> ack(Command("NotImplemented", "", <<>>))

\* commands(name, args), a being the bytes of args.unwrap_or(&[])
commands(n, a) ==
    LET fields == a
    IN  CASE n = <<QUESTION>> -> ack(Command("Reason", "", <<>>))
          [] n = <<LOWER_G>> -> ack(Command("ReadRegister", "", <<>>))
          [] n = <<UPPER_G>> -> ack(Command("WriteRegister", "", fields))
          [] n = <<LOWER_M>> -> ack(Command("ReadMemory", "", fields))
          [] n = <<UPPER_M>> -> ack(Command("WriteMemory", "", fields))
          [] OTHER -> ack(Command("NotImplemented", "", <<>>))

(***************************************************************************)
(* Parser: the cursor primitives.                                          *)
(***************************************************************************)
\* self.current >= self.packet.len()
is_at_end(p, c) == c >= Len(p)

\* *self.packet.get(self.current).unwrap_or(&b'\0')
peek(p, c) == IF c < Len(p) THEN p[c + 1] ELSE NUL

\* a terminator test that forgets the colon
is_term_without_colon(p, c) == peek(p, c) \in {SPACE, COMMA, HASH, SEMICOLON}

\* matches!(self.peek(), b' ' | b',' | b'#' | b';' | b':')
is_term(p, c) == peek(p, c) \in {SPACE, COMMA, HASH, SEMICOLON, COLON}

\* Option<u8> of from_hex
NoNibble == [some |-> FALSE, val |-> 0]

from_hex(b) ==
    IF b >= DIGIT_0 /\ b <= DIGIT_9 THEN [some |-> TRUE, val |-> b - DIGIT_0]
    ELSE IF b >= UPPER_A /\ b <= UPPER_F THEN [some |-> TRUE, val |-> b - UPPER_A + 10]
    ELSE IF b >= LOWER_A /\ b <= LOWER_F THEN [some |-> TRUE, val |-> b - LOWER_A + 10]
    ELSE NoNibble

\* a to_hex that writes the letters in upper case
to_hex_upper(b) ==
    IF b >= 16 THEN NoNibble
    ELSE IF b <= 9 THEN [some |-> TRUE, val |-> b + DIGIT_0]
    ELSE [some |-> TRUE, val |-> b + UPPER_A - 10]

to_hex(b) ==
    IF b >= 16 THEN NoNibble
    ELSE IF b <= 9 THEN [some |-> TRUE, val |-> b + DIGIT_0]
    ELSE [some |-> TRUE, val |-> b + LOWER_A - 10]

\* a to_hex_tuple that gives the low nibble first
to_hex_tuple_low_first(b) == <<to_hex(b % 16).val, to_hex((b \div 16) % 16).val>>

\* (to_hex(h).unwrap(), to_hex(l).unwrap()) as a two-byte sequence
to_hex_tuple(b) == <<to_hex((b \div 16) % 16).val, to_hex(b % 16).val>>

\* what a call can come to: Some(val), None, or a panic
Some(val) == [kind |-> "some", val |-> val]

Nothing == [kind |-> "none", val |-> 0]

Panic == [kind |-> "panic", val |-> 0]

\* a u32 is kept as its two 16-bit halves <<high, low>>, the number
\* high * HalfWord + low, so that it keeps its width
HalfWord == 65536

\* sum += b as u32: past the last u32 the addition panics in a build with
\* overflow checks and wraps in one without
AddU32(sum, b, overflow_checks) ==
    LET low == sum[2] + b
        high == sum[1] + (low \div HalfWord)
    IN  IF high >= HalfWord /\ overflow_checks THEN Panic
        ELSE Some(<<high % HalfWord, low % HalfWord>>)

\* the loop of add_chksm from byte i (1-based) of the data on
RECURSIVE add_chksm_loop(_, _, _, _)
add_chksm_loop(data, i, sum, overflow_checks) ==
    IF i > Len(data) THEN Some(sum)
    ELSE IF data[i] = DOLLAR THEN add_chksm_loop(data, i + 1, sum, overflow_checks)
    ELSE IF data[i] = HASH THEN Some(sum)
    ELSE LET added == AddU32(sum, data[i], overflow_checks)
         IN  IF added.kind = "panic" THEN Panic
             ELSE add_chksm_loop(data, i + 1, added.val, overflow_checks)

\* add_chksm(response_data): the u32 sum, or the panic of the addition
add_chksm(data, overflow_checks) == add_chksm_loop(data, 1, <<0, 0>>, overflow_checks)

\* the loop of a checksum that counts `$` bytes too
RECURSIVE add_chksm_with_dollar_loop(_, _, _, _)
add_chksm_with_dollar_loop(data, i, sum, overflow_checks) ==
    IF i > Len(data) THEN Some(sum)
    ELSE IF data[i] = HASH THEN Some(sum)
    ELSE LET added == AddU32(sum, data[i], overflow_checks)
         IN  IF added.kind = "panic" THEN Panic
             ELSE add_chksm_with_dollar_loop(data, i + 1, added.val, overflow_checks)

\* a checksum that counts `$` bytes too
chksm_with_dollar(data, overflow_checks) ==
    LET sum == add_chksm_with_dollar_loop(data, 1, <<0, 0>>, overflow_checks)
    IN  IF sum.kind = "panic" THEN Panic ELSE Some(sum.val[2] % 256)

\* Self::add_chksm(response_data) % 256: the low byte of the sum
chksm(data, overflow_checks) ==
    LET sum == add_chksm(data, overflow_checks)
    IN  IF sum.kind = "panic" THEN Panic ELSE Some(sum.val[2] % 256)

\* a verification that reads a missing or malformed digit as 0
verify_chksm_lenient(p, c, overflow_checks) ==
    LET b0 == from_hex(peek(p, c))
        b1 == from_hex(peek(p, c + 1))
        calc == chksm(p, overflow_checks)
    IN  IF calc.kind = "panic" THEN Panic
        ELSE Some((b0.val * 16 + b1.val) % 256 = calc.val)

\* verify_chksm with the cursor at c: the cursor is advanced once whatever
\* the outcome, so only the verdict is computed here, Some(verdict), or the
\* panic of the checksum, which is computed once both digits are there
verify_chksm(p, c, overflow_checks) ==
    LET b0 == from_hex(peek(p, c))
        b1 == from_hex(peek(p, c + 1))
        calc == chksm(p, overflow_checks)
    IN  IF b0.some /\ b1.some
        THEN (IF calc.kind = "panic" THEN Panic
              ELSE Some((b0.val * 16 + b1.val) % 256 = calc.val))
        ELSE Some(FALSE)

(***************************************************************************)
(* The sink (Stream).  Its contents are the bytes [0, pos).                *)
(* Besides buffer and chksm the record keeps what the overflow handler     *)
(* does and what the link and the callers saw: sent, the bytes the drain   *)
(* callback transmitted since the last reset; drains, how many more times  *)
(* the callback will agree to drain; refused, how many writes have failed. *)
(***************************************************************************)
StreamLen == 512

NewStream == [buffer |-> <<>>, chksm |-> 0, sent |-> <<>>, drains |-> 0, refused |-> 0]

StreamPos(s) == Len(s.buffer)

\* reset(): cursor back to zero, checksum cleared
StreamReset(s) == [s EXCEPT !.buffer = <<>>, !.chksm = 0, !.sent = <<>>]

\* the running checksum after byte b
StreamSum(s, b) == IF b \in {DOLLAR, HASH} THEN s.chksm ELSE s.chksm + b

\* write one byte: [stream, ok, n]; a full sink asks the drain callback, which
\* transmits the contents and has the cursor reset, or declines
StreamWrite(s, b) ==
    IF StreamPos(s) >= StreamLen
    THEN IF s.drains > 0
         THEN [stream |-> [s EXCEPT !.buffer = <<b>>,
                                    !.chksm = StreamSum(s, b),
                                    !.sent = s.sent \o s.buffer,
                                    !.drains = s.drains - 1],
               ok |-> TRUE, n |-> 1]
         ELSE [stream |-> [s EXCEPT !.refused = s.refused + 1], ok |-> FALSE, n |-> 0]
    ELSE [stream |-> [s EXCEPT !.buffer = Append(s.buffer, b),
                               !.chksm = StreamSum(s, b)],
          ok |-> TRUE, n |-> 1]

\* the result of a reply: Ok(n) or Err(error)
Ok(n) == [ok |-> TRUE, n |-> n, error |-> ""]

Err(e) == [ok |-> FALSE, n |-> 0, error |-> e]

NoReply == [ok |-> FALSE, n |-> 0, error |-> "none"]

\* ResponseWriter::write for a byte that needs no escape (`+`, `-`)
WriteByte(s, b) ==
    LET w == StreamWrite(s, b)
    IN  [stream |-> w.stream,
         result |-> IF w.ok THEN Ok(w.n) ELSE Err("MemoryFilledInterupt")]

\* a reply that answers RetransmitLast and AcknowledgeLast like Retransmit and
\* Acknowledge
response_last_writes(cmd, s) ==
    CASE cmd.kind \in {"NoCommand", "Unsupported"} -> [stream |-> s, result |-> Ok(0)]
      [] cmd.kind \in {"Retransmit", "RetransmitLast"} -> WriteByte(StreamReset(s), MINUS)
      [] cmd.kind \in {"Acknowledge", "AcknowledgeLast"} -> WriteByte(StreamReset(s), PLUS)

\* a reply that resets the sink for every variant, the silent ones too
response_resetting(cmd, s) ==
    CASE cmd.kind \in {"NoCommand", "Unsupported", "RetransmitLast", "AcknowledgeLast"} ->
            [stream |-> StreamReset(s), result |-> Ok(0)]
      [] cmd.kind = "Retransmit" -> WriteByte(StreamReset(s), MINUS)
      [] cmd.kind = "Acknowledge" -> WriteByte(StreamReset(s), PLUS)

\* Commands::response for the variants a Parsed.response can hold
response(cmd, s) ==
    CASE cmd.kind \in {"NoCommand", "Unsupported", "RetransmitLast", "AcknowledgeLast"} ->
            [stream |-> s, result |-> Ok(0)]
      [] cmd.kind = "Retransmit" -> WriteByte(StreamReset(s), MINUS)
      [] cmd.kind = "Acknowledge" -> WriteByte(StreamReset(s), PLUS)

(***************************************************************************)
(* VirtualTarget (target.rs 49-66): 38 registers and 512 bytes of memory.  *)
(* A register is kept as the four bytes of to_be_bytes().  The record      *)
(* holds what differs from the state after new(): registers maps the       *)
(* indices (0-based) of the registers that no longer hold their reset      *)
(* value to their bytes, memory the addresses of the non-zero bytes to     *)
(* those bytes.                                                            *)
(***************************************************************************)
RegisterCount == 38

MemoryLen == 512

\* registers[i] after VirtualTarget::new(): 1u32.to_be(), and for the last
\* one 0xBFC00000u32.to_be(); to_be() swaps the bytes on a little-endian host
ResetRegister(little_endian_host, i) ==
    IF i = RegisterCount - 1
    THEN (IF little_endian_host THEN <<0, 0, 192, 191>> ELSE <<191, 192, 0, 0>>)
    ELSE (IF little_endian_host THEN <<1, 0, 0, 0>> ELSE <<0, 0, 0, 1>>)

\* VirtualTarget::new()
VirtualTargetNew(little_endian_host) ==
    [little_endian_host |-> little_endian_host,
     registers |-> [i \in {} |-> <<>>],
     memory |-> [i \in {} |-> 0]]

\* self.registers[i].to_be_bytes()
Register(t, i) ==
    IF i \in DOMAIN t.registers THEN t.registers[i]
    ELSE ResetRegister(t.little_endian_host, i)

\* the differences f with the one at i taken out, or set to v; built as a
\* table at once rather than as a rule over f
Differing(f, i, v, taken_out) ==
    IF taken_out THEN [j \in DOMAIN f \ {i} |-> f[j]] @@ <<>>
    ELSE (i :> v) @@ f

\* self.registers[i] = the u32 of bytes v
RegisterSet(t, i, v) ==
    [t EXCEPT !.registers =
        Differing(t.registers, i, v, v = ResetRegister(t.little_endian_host, i))]

\* self.memory[i]
MemoryByte(t, i) == IF i \in DOMAIN t.memory THEN t.memory[i] ELSE 0

\* self.memory[i] = v
MemorySet(t, i, v) == [t EXCEPT !.memory = Differing(t.memory, i, v, v = 0)]

(***************************************************************************)
(* Inputs.                                                                 *)
(***************************************************************************)
RawAlphabet == {DOLLAR, HASH, PLUS, MINUS, LOWER_V, LOWER_G, COMMA, DIGIT_0}

PayloadAlphabet == {QUESTION, LOWER_G, UPPER_G, LOWER_M, UPPER_M, LOWER_V,
                    LOWER_Q, COLON, DOLLAR}

SeqsUpTo(S, n) == UNION {[1..k -> S] : k \in 0..n}

RECURSIVE Sum(_)
Sum(s) == IF s = <<>> THEN 0 ELSE Head(s) + Sum(Tail(s))

\* s without its `$` bytes
RECURSIVE WithoutDollar(_)
WithoutDollar(s) ==
    IF s = <<>> THEN <<>>
    ELSE IF Head(s) = DOLLAR THEN WithoutDollar(Tail(s))
    ELSE <<Head(s)>> \o WithoutDollar(Tail(s))

\* two lowercase hex digits of n mod 256
HexPair(n) == to_hex_tuple(n % 256)

\* the same digits in upper case
Upper(d) == IF d >= LOWER_A /\ d <= LOWER_F THEN d - LOWER_A + UPPER_A ELSE d

\* the checksum fields tried after `$` payload `#`: the sum of all payload
\* bytes, the sum without `$` bytes, both in upper case, and each off by one
ChecksumFields(payload) ==
    LET t == Sum(payload)
        c == Sum(WithoutDollar(payload))
    IN  {HexPair(n) : n \in {t, c, c + 1, c + 255}}
        \cup {<<Upper(HexPair(c)[1]), Upper(HexPair(c)[2])>>}

\* what stands before and after the frame in the input
Surroundings == {<<<<>>, <<>>>>, <<<<PLUS>>, <<>>>>, <<<<>>, <<MINUS>>>>}

FramesOf(payload) ==
    {around[1] \o <<DOLLAR>> \o payload \o <<HASH>> \o field \o around[2] :
        around \in Surroundings, field \in ChecksumFields(payload)}

\* frames around the payloads of at most n bytes
FramedInputs(n) ==
    UNION {FramesOf(payload) : payload \in SeqsUpTo(PayloadAlphabet \ {HASH}, n)}

\* raw inputs of at most r bytes and frames around payloads of at most n
Inputs(r, n) == SeqsUpTo(RawAlphabet, r) \cup FramedInputs(n)

(***************************************************************************)
(* Parser::new(packet), a fresh sink, nothing parsed or replied yet.       *)
(***************************************************************************)
Init ==
    /\ packet \in Inputs(MaxRawLen, MaxPayload)
    /\ current = 0
    /\ pc = "idle"
    /\ start = 0
    /\ tok_start = 0
    /\ name = NoSlice
    /\ args = NoSlice
    /\ parsed = NotParsed
    /\ consulted = FALSE
    /\ stream = NewStream
    /\ reply = NoReply
    /\ target = VirtualTargetNew(TRUE)

\* parse_packet returns r with the cursor at c
Return(r, c) ==
    /\ parsed' = r
    /\ current' = c
    /\ pc' = "returned"

\* a parse_packet that takes every byte other than `+` and `-` for the `$`
parse_packet_any_introduction ==
    /\ pc = "idle"
    /\ start' = current
    /\ consulted' = FALSE
    /\ name' = NoSlice
    /\ args' = NoSlice
    /\ IF peek(packet, current) = MINUS
       THEN Return(Parsed(RetransmitLast, None), current + 1)
       ELSE IF peek(packet, current) = PLUS
       THEN Return(Parsed(AcknowledgeLast, None), current + 1)
       ELSE /\ current' = current + 1
            /\ pc' = "name"
            /\ parsed' = NotParsed
    /\ UNCHANGED <<packet, tok_start, stream, reply, target>>

(***************************************************************************)
(* parse_packet, lines 62-74: the caller calls it on the parser as it      *)
(* stands; `-` and `+` are answered at once, anything but `$` is refused.  *)
(***************************************************************************)
parse_packet ==
    /\ pc = "idle"
    /\ start' = current
    /\ consulted' = FALSE
    /\ name' = NoSlice
    /\ args' = NoSlice
    /\ IF peek(packet, current) = MINUS
       THEN Return(Parsed(RetransmitLast, None), current + 1)
       ELSE IF peek(packet, current) = PLUS
       THEN Return(Parsed(AcknowledgeLast, None), current + 1)
       ELSE IF peek(packet, current) # DOLLAR
       THEN Return(retransmit("UnexpectedIntroduction"), current)
       ELSE /\ current' = current + 1
            /\ pc' = "name"
            /\ parsed' = NotParsed
    /\ UNCHANGED <<packet, tok_start, stream, reply, target>>

(***************************************************************************)
(* parse_name, lines 115-120: a token for `v` and `q`, else the one-byte   *)
(* slice at the cursor, which is taken without moving the cursor.          *)
(***************************************************************************)
parse_name ==
    /\ pc = "name"
    /\ IF peek(packet, current) \in {LOWER_V, LOWER_Q}
       THEN /\ tok_start' = current
            /\ pc' = "token"
            /\ name' = name
       ELSE IF SliceOk(packet, current, current + 1)
       THEN /\ name' = Slice(current, current + 1)
            /\ pc' = "args"
            /\ tok_start' = tok_start
       ELSE /\ pc' = "panic"
            /\ UNCHANGED <<name, tok_start>>
    /\ UNCHANGED <<packet, current, start, args, parsed, consulted, stream, reply, target>>

(***************************************************************************)
(* parse_token, lines 124-130, called by parse_name: one iteration of the  *)
(* loop, or its exit with the slice [start, current).                      *)
(***************************************************************************)
parse_token ==
    /\ pc = "token"
    /\ IF ~is_at_end(packet, current) /\ ~is_term(packet, current)
       THEN /\ current' = current + 1
            /\ UNCHANGED <<pc, name>>
       ELSE IF SliceOk(packet, tok_start, current)
       THEN /\ name' = Slice(tok_start, current)
            /\ pc' = "args"
            /\ current' = current
       ELSE /\ pc' = "panic"
            /\ UNCHANGED <<current, name>>
    /\ UNCHANGED <<packet, start, tok_start, args, parsed, consulted, stream, reply, target>>

\* a parse_packet that reads the arguments without the advance() before them
parse_args_without_advance ==
    /\ pc = "args"
    /\ IF peek(packet, current) # HASH
       THEN /\ current' = current
            /\ tok_start' = current
            /\ pc' = "until_end"
       ELSE /\ pc' = "end"
            /\ UNCHANGED <<current, tok_start>>
    /\ args' = NoSlice
    /\ UNCHANGED <<packet, start, name, parsed, consulted, stream, reply, target>>

(***************************************************************************)
(* parse_packet, lines 81-87: unless the cursor is at `#`, skip one byte   *)
(* and read the arguments.                                                 *)
(***************************************************************************)
parse_args ==
    /\ pc = "args"
    /\ IF peek(packet, current) # HASH
       THEN /\ current' = current + 1
            /\ tok_start' = current + 1
            /\ pc' = "until_end"
       ELSE /\ pc' = "end"
            /\ UNCHANGED <<current, tok_start>>
    /\ args' = NoSlice
    /\ UNCHANGED <<packet, start, name, parsed, consulted, stream, reply, target>>

(***************************************************************************)
(* parse_until_end, lines 135-141: one iteration of the loop, or its exit  *)
(* with the slice [start, current).                                        *)
(***************************************************************************)
parse_until_end ==
    /\ pc = "until_end"
    /\ IF peek(packet, current) # HASH /\ ~is_at_end(packet, current)
       THEN /\ current' = current + 1
            /\ UNCHANGED <<pc, args>>
       ELSE IF SliceOk(packet, tok_start, current)
       THEN /\ args' = Slice(tok_start, current)
            /\ pc' = "end"
            /\ current' = current
       ELSE /\ pc' = "panic"
            /\ UNCHANGED <<current, args>>
    /\ UNCHANGED <<packet, start, tok_start, name, parsed, consulted, stream, reply, target>>

(***************************************************************************)
(* parse_packet, lines 89-93: the end delimiter.                           *)
(***************************************************************************)
expect_end ==
    /\ pc = "end"
    /\ IF peek(packet, current) = HASH
       THEN /\ current' = current + 1
            /\ pc' = "chksm"
            /\ parsed' = parsed
       ELSE Return(retransmit("NotTerminated"), current)
    /\ UNCHANGED <<packet, start, tok_start, name, args, consulted, stream, reply, target>>

\* a parse_packet without the advance() that follows the verification
verify_and_dispatch_without_advance ==
    /\ pc = "chksm"
    /\ \E overflow_checks \in BOOLEAN :
          LET verdict == verify_chksm(packet, current, overflow_checks)
          IN  IF verdict.kind = "panic"
              THEN /\ pc' = "panic"
                   /\ current' = current + 1
                   /\ UNCHANGED <<parsed, consulted>>
              ELSE IF ~verdict.val
              THEN /\ Return(retransmit("InvalidChecksum"), current + 1)
                   /\ consulted' = FALSE
              ELSE /\ Return(commands(Bytes(packet, name), Bytes(packet, args)), current + 1)
                   /\ consulted' = TRUE
    /\ UNCHANGED <<packet, start, tok_start, name, args, stream, reply, target>>

(***************************************************************************)
(* parse_packet, lines 94-101: verify_chksm reads the byte at the cursor   *)
(* and the byte advance() moves to; on success the cursor is advanced once *)
(* more and the registry builds the result from (name, args).  The sum of  *)
(* the checksum is a u32: where it overflows, the call panics in a build   *)
(* with overflow checks, after the advance() of verify_chksm has moved the *)
(* cursor.                                                                 *)
(***************************************************************************)
verify_and_dispatch ==
    /\ pc = "chksm"
    /\ \E overflow_checks \in BOOLEAN :
          LET verdict == verify_chksm(packet, current, overflow_checks)
          IN  IF verdict.kind = "panic"
              THEN /\ pc' = "panic"
                   /\ current' = current + 1
                   /\ UNCHANGED <<parsed, consulted>>
              ELSE IF ~verdict.val
              THEN /\ Return(retransmit("InvalidChecksum"), current + 1)
                   /\ consulted' = FALSE
              ELSE /\ Return(commands(Bytes(packet, name), Bytes(packet, args)), current + 2)
                   /\ consulted' = TRUE
    /\ UNCHANGED <<packet, start, tok_start, name, args, stream, reply, target>>

(***************************************************************************)
(* The caller replies with the response of the Parsed value it was given   *)
(* (client main.rs 33-41, exec_packet in target.rs 152-154) and may then   *)
(* call parse_packet again.                                                *)
(***************************************************************************)
reply_response ==
    /\ pc = "returned"
    /\ LET r == response(parsed.response, stream)
       IN  /\ stream' = r.stream
           /\ reply' = r.result
    /\ pc' = "idle"
    /\ UNCHANGED <<packet, current, start, tok_start, name, args, parsed, consulted, target>>

Next ==
    \/ parse_packet
    \/ parse_name
    \/ parse_token
    \/ parse_args
    \/ parse_until_end
    \/ expect_end
    \/ verify_and_dispatch
    \/ reply_response

Spec == Init /\ [][Next]_vars

(***************************************************************************)
(* Vocabulary of the properties, stated on the input alone.                *)
(***************************************************************************)
\* the 0-based index of the first `#` of p at or after index from, Len(p) if none
FirstHash(p, from) ==
    LET S == {i \in from..(Len(p) - 1) : p[i + 1] = HASH}
    IN  IF S = {} THEN Len(p) ELSE CHOOSE i \in S : \A j \in S : i <= j

\* the 0-based index of the first byte of p that is neither `+` nor `-`, Len(p) if none
FirstNonAck(p) ==
    LET S == {i \in 0..(Len(p) - 1) : p[i + 1] \notin {PLUS, MINUS}}
    IN  IF S = {} THEN Len(p) ELSE CHOOSE i \in S : \A j \in S : i <= j

\* the value of a hex digit in either case, 16 for any other byte
LowerHexDigits == <<48, 49, 50, 51, 52, 53, 54, 55, 56, 57, 97, 98, 99, 100, 101, 102>>

UpperHexDigits == <<48, 49, 50, 51, 52, 53, 54, 55, 56, 57, 65, 66, 67, 68, 69, 70>>

HexValue(d) ==
    IF \E i \in 1..16 : LowerHexDigits[i] = d \/ UpperHexDigits[i] = d
    THEN (CHOOSE i \in 1..16 : LowerHexDigits[i] = d \/ UpperHexDigits[i] = d) - 1
    ELSE 16

\* p is `$` payload `#` and more, the payload holding no `#`
Framed(p) == Len(p) >= 2 /\ p[1] = DOLLAR /\ FirstHash(p, 1) < Len(p)

\* the payload of a framed p
PayloadOf(p) == SubSeq(p, 2, FirstHash(p, 1))

\* the bytes of a framed p after its `#`
FieldOf(p) == SubSeq(p, FirstHash(p, 1) + 2, Len(p))

\* field begins with two hex digits that encode n
FieldEncodes(field, n) ==
    /\ Len(field) >= 2
    /\ HexValue(field[1]) < 16
    /\ HexValue(field[2]) < 16
    /\ HexValue(field[1]) * 16 + HexValue(field[2]) = n

\* p is exactly `$` payload `#` hh, hh the sum mod 256 of all payload bytes
WellFormedAllBytes(p) ==
    /\ Framed(p)
    /\ Len(FieldOf(p)) = 2
    /\ FieldEncodes(FieldOf(p), Sum(PayloadOf(p)) % 256)

\* p is exactly `$` payload `#` hh, hh the sum mod 256 of the payload bytes other than `$`
WellFormed(p) ==
    /\ Framed(p)
    /\ Len(FieldOf(p)) = 2
    /\ FieldEncodes(FieldOf(p), Sum(WithoutDollar(PayloadOf(p))) % 256)

\* the first call of parse_packet on a fresh parser has returned
FirstCallReturned == pc = "returned" /\ start = 0

(***************************************************************************)
(* C1: for every input parse_packet completes and returns a Parsed value:  *)
(* it never panics and never takes a slice outside the input.              *)
(***************************************************************************)
C1_NeverPanics == pc # "panic"

(***************************************************************************)
(* C2 as stated: a fresh parser given exactly `$` payload `#` hh, hh the   *)
(* sum mod 256 of the payload bytes, returns Acknowledge and a command.    *)
(***************************************************************************)
C2_Original ==
    (FirstCallReturned /\ WellFormedAllBytes(packet))
        => (parsed.response = Acknowledge /\ parsed.command # None)

(***************************************************************************)
(* C2 amended: a fresh parser given exactly `$` payload `#` hh, hh the sum *)
(* mod 256 of the payload bytes other than `$`, returns Acknowledge and a  *)
(* command.                                                                *)
(***************************************************************************)
C2_WellFormedAcknowledged ==
    (FirstCallReturned /\ WellFormed(packet))
        => (parsed.response = Acknowledge /\ parsed.command # None)

C2_Witness ==
    /\ FirstCallReturned
    /\ WellFormed(packet)
    /\ \E i \in 1..Len(PayloadOf(packet)) : PayloadOf(packet)[i] = DOLLAR
    /\ parsed.response = Acknowledge

(***************************************************************************)
(* C3: the default registry maps the name `?` to Reason, `g` to            *)
(* ReadRegisters, `G` to WriteRegisters(args), `m` to ReadMemory(args),    *)
(* `M` to WriteMemory(args) and every other name to NotImplemented; absent *)
(* arguments are the empty slice; the response is always Acknowledge.      *)
(***************************************************************************)
C3_RegistryMapping ==
    (pc = "returned" /\ consulted) =>
        LET n == Bytes(packet, name)
            a == IF args.some THEN SubSeq(packet, args.lo + 1, args.hi) ELSE <<>>
        IN  /\ parsed.response = Acknowledge
            /\ n = <<QUESTION>> => parsed.command = Command("Reason", "", <<>>)
            /\ n = <<LOWER_G>> => parsed.command = Command("ReadRegister", "", <<>>)
            /\ n = <<UPPER_G>> => parsed.command = Command("WriteRegister", "", a)
            /\ n = <<LOWER_M>> => parsed.command = Command("ReadMemory", "", a)
            /\ n = <<UPPER_M>> => parsed.command = Command("WriteMemory", "", a)
            /\ n \notin {<<QUESTION>>, <<LOWER_G>>, <<UPPER_G>>, <<LOWER_M>>, <<UPPER_M>>}
                  => parsed.command = Command("NotImplemented", "", <<>>)

C3_Witness ==
    /\ pc = "returned"
    /\ consulted
    /\ Bytes(packet, name) = <<UPPER_M>>
    /\ Len(Bytes(packet, args)) = 1
    /\ parsed.command.kind = "WriteMemory"

(***************************************************************************)
(* C4 as stated: for every input whose first byte other than `+` and `-`   *)
(* is not `$`, parse_packet yields Retransmit(UnexpectedIntroduction) and  *)
(* no command.                                                             *)
(***************************************************************************)
C4_Original ==
    (/\ FirstCallReturned
     /\ FirstNonAck(packet) < Len(packet)
     /\ packet[FirstNonAck(packet) + 1] # DOLLAR)
        => parsed = Parsed(Retransmit("UnexpectedIntroduction"), None)

(***************************************************************************)
(* C4 amended: for every input whose first byte other than `+` and `-` is  *)
(* not `$` (or is missing), each call of parse_packet that starts on a     *)
(* leading `+` or `-` returns AcknowledgeLast or RetransmitLast, and the   *)
(* call that starts at that first other byte returns                       *)
(* Retransmit(UnexpectedIntroduction), no command, the cursor unmoved.     *)
(***************************************************************************)
C4_UnexpectedIntroduction ==
    (/\ pc = "returned"
     /\ FirstNonAck(packet) < Len(packet) => packet[FirstNonAck(packet) + 1] # DOLLAR)
        => /\ start < FirstNonAck(packet) =>
                /\ parsed.response \in {AcknowledgeLast, RetransmitLast}
                /\ parsed.command = None
           /\ start = FirstNonAck(packet) =>
                /\ parsed = Parsed(Retransmit("UnexpectedIntroduction"), None)
                /\ current = start

C4_Witness ==
    /\ pc = "returned"
    /\ start = 2
    /\ FirstNonAck(packet) = 2
    /\ Len(packet) > 2
    /\ packet[3] # DOLLAR
    /\ parsed = Parsed(Retransmit("UnexpectedIntroduction"), None)

(***************************************************************************)
(* C5: for every input `$` payload `#` field whose field does not begin    *)
(* with two hex digits encoding the checksum of the payload (the sum mod   *)
(* 256 of its bytes other than `$`), parse_packet yields                   *)
(* Retransmit(InvalidChecksum), no command, and the registry is not        *)
(* consulted.                                                              *)
(***************************************************************************)
C5_InvalidChecksum ==
    (/\ FirstCallReturned
     /\ Framed(packet)
     /\ ~FieldEncodes(FieldOf(packet), Sum(WithoutDollar(PayloadOf(packet))) % 256))
        => /\ parsed = Parsed(Retransmit("InvalidChecksum"), None)
           /\ ~consulted

\* a checksum field that is off by one
C5_Witness ==
    /\ FirstCallReturned
    /\ Framed(packet)
    /\ Len(PayloadOf(packet)) = 2
    /\ FieldEncodes(FieldOf(packet), (Sum(WithoutDollar(PayloadOf(packet))) + 1) % 256)
    /\ parsed = Parsed(Retransmit("InvalidChecksum"), None)

(***************************************************************************)
(* C6: for every input that starts with `$` and holds no `#`, parse_packet *)
(* yields Retransmit(NotTerminated) and no command.                        *)
(***************************************************************************)
C6_NotTerminated ==
    (/\ start = 0
     /\ pc \in {"returned", "panic"}
     /\ Len(packet) >= 1
     /\ packet[1] = DOLLAR
     /\ FirstHash(packet, 0) = Len(packet))
        => /\ pc = "returned"
           /\ parsed = Parsed(Retransmit("NotTerminated"), None)

(***************************************************************************)
(* C7: a call of parse_packet that starts on `-` returns (RetransmitLast,  *)
(* no command), one that starts on `+` returns (AcknowledgeLast, no        *)
(* command); it consumes exactly that byte (cursor = 1 for the first byte  *)
(* of the input), and replying with the returned value returns 0 and       *)
(* leaves the sink as it was.                                              *)
(***************************************************************************)
C7_LastReturned ==
    (pc = "returned" /\ start < Len(packet) /\ packet[start + 1] \in {PLUS, MINUS})
        => /\ parsed = Parsed(IF packet[start + 1] = MINUS THEN RetransmitLast
                              ELSE AcknowledgeLast, None)
           /\ current = start + 1

C7_LastReply ==
    (/\ pc = "returned"
     /\ pc' = "idle"
     /\ start < Len(packet)
     /\ packet[start + 1] \in {PLUS, MINUS})
        => /\ reply' = Ok(0)
           /\ stream' = stream

C7_AckBytes == [] C7_LastReturned /\ [][C7_LastReply]_vars

\* `+` after a frame whose Acknowledge is in the sink has been replied to
C7_Witness ==
    /\ pc = "idle"
    /\ start > 0
    /\ start < Len(packet)
    /\ packet[start + 1] = MINUS
    /\ parsed = Parsed(RetransmitLast, None)
    /\ reply = Ok(0)
    /\ stream.buffer = <<PLUS>>

(***************************************************************************)
(* C8: the name handed to the registry is, when the first payload byte is  *)
(* `v` or `q`, the maximal run of bytes from there holding none of space,  *)
(* comma, `#`, semicolon, colon; otherwise the single first payload byte.  *)
(***************************************************************************)
Terminators == {SPACE, COMMA, HASH, SEMICOLON, COLON}

C8_Name ==
    (pc = "returned" /\ consulted) =>
        /\ name.some
        /\ name.lo = start + 1
        /\ IF packet[start + 2] \in {LOWER_V, LOWER_Q}
           THEN /\ \A i \in name.lo..(name.hi - 1) : packet[i + 1] \notin Terminators
                /\ name.hi = Len(packet) \/ packet[name.hi + 1] \in Terminators
           ELSE name.hi = start + 2

\* a `q` name of two bytes ended by a colon
C8_Witness ==
    /\ start + 4 <= Len(packet)
    /\ pc = "returned"
    /\ consulted
    /\ packet[start + 2] = LOWER_Q
    /\ name = Slice(start + 1, start + 3)
    /\ packet[name.hi + 1] = COLON

(***************************************************************************)
(* C9: the argument slice handed to the registry is a sub-range of the     *)
(* input that ends just before the first `#` after the name: after a       *)
(* one-byte name it starts right after the name byte, after a `v`/`q` name *)
(* followed by a terminator other than `#` it starts one byte after the    *)
(* name, and it is absent exactly when `#` directly follows a `v`/`q` name *)
(* or is itself the name byte.                                             *)
(***************************************************************************)
C9_Args ==
    (pc = "returned" /\ consulted) =>
        LET long == packet[start + 2] \in {LOWER_V, LOWER_Q}
            absent == IF long THEN packet[name.hi + 1] = HASH
                      ELSE packet[start + 2] = HASH
            first == IF long THEN name.hi + 1 ELSE name.hi
        IN  /\ args.some = ~absent
            /\ args.some =>
                 /\ args.lo = first
                 /\ args.hi = FirstHash(packet, name.hi)
                 /\ args.lo <= args.hi
                 /\ args.hi <= Len(packet)

\* `G` with one argument byte, and nothing dropped
C9_Witness ==
    /\ pc = "returned"
    /\ consulted
    /\ Bytes(packet, name) = <<UPPER_G>>
    /\ args = Slice(start + 2, start + 3)
    /\ parsed.command = Command("WriteRegister", "", <<packet[start + 3]>>)

(***************************************************************************)
(* C10: after parse_packet accepts a packet the cursor is one past the     *)
(* second checksum digit; when the packet is the whole input, is_at_end()  *)
(* holds.                                                                  *)
(***************************************************************************)
C10_CursorAfterAccept ==
    (pc = "returned" /\ consulted) =>
        /\ current = FirstHash(packet, start + 1) + 3
        /\ (start = 0 /\ WellFormed(packet)) => is_at_end(packet, current)

C10_Witness ==
    /\ pc = "returned"
    /\ consulted
    /\ Len(packet) > current
    /\ current = FirstHash(packet, start + 1) + 3


(***************************************************************************)
(* The hex codec on machine words.  A usize is kept as its WordNibbles     *)
(* nibbles, most significant first, so that it keeps its width.            *)
(***************************************************************************)
\* nibbles of a usize
WordNibbles == 16

\* the usize 0
ZeroWord == [i \in 1..WordNibbles |-> 0]

\* a | b for two nibbles
NibbleOr(a, b) ==
    LET bit(k) == IF (a \div k) % 2 = 1 \/ (b \div k) % 2 = 1 THEN k ELSE 0
    IN  bit(1) + bit(2) + bit(4) + bit(8)

\* result |= val << shift, for a nibble val and a shift that is a multiple of
\* 4: a shift of the width or more panics in a build with overflow checks and
\* in one without shifts by what is left of it modulo the width
OrShifted(w, val, shift, overflow_checks) ==
    LET at == WordNibbles - ((shift % (4 * WordNibbles)) \div 4)
    IN  IF shift >= 4 * WordNibbles /\ overflow_checks THEN Panic
        ELSE Some([w EXCEPT ![at] = NibbleOr(w[at], val)])

\* b.iter().position(|&v| v == 0).unwrap_or(b.len())
RECURSIVE end_index(_)
end_index(b) ==
    IF b = <<>> \/ Head(b) = NUL THEN 0 ELSE 1 + end_index(Tail(b))

\* the loop of from_hexu over the bytes i..end-1 (0-based) of b: digit after
\* digit, stopping at a byte that is none and at a shift that panics;
\* evaluated as the first half of the range and then the second, which keeps
\* the evaluation shallow
RECURSIVE from_hexu_loop(_, _, _, _, _, _)
from_hexu_loop(b, i, end, shift_len, result, overflow_checks) ==
    IF i >= end THEN Some(result)
    ELSE IF end = i + 1
    THEN LET val == from_hex(b[i + 1])
         IN  IF ~val.some THEN Nothing
             ELSE OrShifted(result, val.val, shift_len - 4 * i, overflow_checks)
    ELSE LET mid == (i + end) \div 2
             r == from_hexu_loop(b, i, mid, shift_len, result, overflow_checks)
         IN  IF r.kind # "some" THEN r
             ELSE from_hexu_loop(b, mid, end, shift_len, r.val, overflow_checks)

\* from_hexu(b); on no digit at all `b.len() - 1` overflows: a panic in a
\* build that checks overflow, and in one that does not the loop runs over
\* nothing and leaves result = 0
from_hexu(b, overflow_checks) ==
    LET d == SubSeq(b, 1, end_index(b))
    IN  IF d = <<>>
        THEN (IF overflow_checks THEN Panic ELSE Some(ZeroWord))
        ELSE from_hexu_loop(d, 0, Len(d), (Len(d) - 1) * 4, ZeroWord, overflow_checks)

\* to_hex8(b, stream): both digits, stopping at a failed write
to_hex8(b, s) ==
    LET t == to_hex_tuple(b)
        w0 == StreamWrite(s, t[1])
        w1 == StreamWrite(w0.stream, t[2])
    IN  IF ~w0.ok THEN [stream |-> w0.stream, result |-> Err("MemoryFilledInterupt")]
        ELSE IF ~w1.ok THEN [stream |-> w1.stream, result |-> Err("MemoryFilledInterupt")]
        ELSE [stream |-> w1.stream, result |-> Ok(0)]

\* to_hexu(b, stream)
RECURSIVE to_hexu(_, _)
to_hexu(b, s) ==
    IF b = <<>> THEN [stream |-> s, result |-> Ok(0)]
    ELSE LET r == to_hex8(Head(b), s)
         IN  IF ~r.result.ok THEN r ELSE to_hexu(Tail(b), r.stream)

(***************************************************************************)
(* The codec called on its own: one argument, one call, and the two round  *)
(* trips to_hex -> from_hex and to_hexu -> from_hexu.                      *)
(***************************************************************************)
\* longest argument of a codec call
MaxCodecLen == 3

CodecAlphabet == {NUL, HASH, DOLLAR, DIGIT_0, UPPER_A, LOWER_F, LOWER_G, 175, 255}

\* digits one more than a usize holds: "10000000000000000", "00000000000000001"
\* and "f123456789abcdef0"
LongDigits ==
    {[i \in 1..(WordNibbles + 1) |-> IF i = 1 THEN 49 ELSE DIGIT_0],
     [i \in 1..(WordNibbles + 1) |-> IF i = WordNibbles + 1 THEN 49 ELSE DIGIT_0],
     <<LOWER_F>> \o [i \in 1..WordNibbles |-> LowerHexDigits[(i % 16) + 1]]}

CodecInputs ==
    SeqsUpTo(CodecAlphabet, MaxCodecLen) \cup {<<b>> : b \in 0..255} \cup LongDigits

InitCodec ==
    /\ packet \in CodecInputs
    /\ current = 0
    /\ pc = "idle"
    /\ start = 0
    /\ tok_start = 0
    /\ name = NoSlice
    /\ args = NoSlice
    /\ parsed = NotParsed
    /\ consulted = FALSE
    /\ stream = NewStream
    /\ reply = Nothing
    /\ target = VirtualTargetNew(TRUE)

CodecFrame ==
    UNCHANGED <<packet, current, start, tok_start, name, args, parsed, consulted, target>>

\* Parser::chksm(packet), in a build with or without overflow checks
call_chksm ==
    /\ pc = "idle"
    /\ \E overflow_checks \in BOOLEAN : reply' = chksm(packet, overflow_checks)
    /\ pc' = "chksm"
    /\ UNCHANGED stream
    /\ CodecFrame

\* Parser::to_hex(b) for a one-byte argument
call_to_hex ==
    /\ pc = "idle"
    /\ Len(packet) = 1
    /\ reply' = (IF to_hex(packet[1]).some THEN Some(to_hex(packet[1]).val) ELSE Nothing)
    /\ pc' = "to_hex"
    /\ UNCHANGED stream
    /\ CodecFrame

\* Parser::from_hex(b) for a one-byte argument
call_from_hex ==
    /\ pc = "idle"
    /\ Len(packet) = 1
    /\ reply' = (IF from_hex(packet[1]).some THEN Some(from_hex(packet[1]).val) ELSE Nothing)
    /\ pc' = "from_hex"
    /\ UNCHANGED stream
    /\ CodecFrame

\* Parser::from_hex on the digit to_hex returned
call_from_hex_back ==
    /\ pc = "to_hex"
    /\ reply.kind = "some"
    /\ reply' = (IF from_hex(reply.val).some THEN Some(from_hex(reply.val).val) ELSE Nothing)
    /\ pc' = "to_hex_from_hex"
    /\ UNCHANGED stream
    /\ CodecFrame

\* Parser::from_hexu(packet), in a build with or without overflow checks
call_from_hexu ==
    /\ pc = "idle"
    /\ \E overflow_checks \in BOOLEAN : reply' = from_hexu(packet, overflow_checks)
    /\ pc' = "from_hexu"
    /\ UNCHANGED stream
    /\ CodecFrame

\* Parser::to_hexu(packet, stream)
call_to_hexu ==
    /\ pc = "idle"
    /\ stream' = to_hexu(packet, stream).stream
    /\ reply' = Nothing
    /\ pc' = "to_hexu"
    /\ CodecFrame

\* Parser::from_hexu on the digits to_hexu wrote
call_from_hexu_back ==
    /\ pc = "to_hexu"
    /\ \E overflow_checks \in BOOLEAN :
          reply' = from_hexu(stream.buffer, overflow_checks)
    /\ pc' = "to_hexu_from_hexu"
    /\ UNCHANGED stream
    /\ CodecFrame

NextCodec ==
    \/ call_chksm
    \/ call_to_hex
    \/ call_from_hex
    \/ call_from_hex_back
    \/ call_from_hexu
    \/ call_to_hexu
    \/ call_from_hexu_back

SpecCodec == InitCodec /\ [][NextCodec]_vars

\* the nibbles of the bytes of b, each byte's high nibble first
RECURSIVE NibblesOf(_)
NibblesOf(b) ==
    IF b = <<>> THEN <<>>
    ELSE <<Head(b) \div 16, Head(b) % 16>> \o NibblesOf(Tail(b))

\* the usize whose last nibbles are n, for at most WordNibbles of them
WordOfNibbles(n) ==
    [i \in 1..WordNibbles |-> IF i <= WordNibbles - Len(n) THEN 0
                              ELSE n[i - (WordNibbles - Len(n))]]

(***************************************************************************)
(* Parser::next_token called again and again on a parser over an argument  *)
(* slice, as the memory commands do.                                       *)
(***************************************************************************)
\* longest slice tokenized
MaxTokenInput == 4

TokenAlphabet == {LOWER_G, DIGIT_0, COMMA, COLON, SEMICOLON, SPACE, HASH, NUL}

\* where the loop of parse_token stops when it starts at cursor c
RECURSIVE parse_token_end(_, _)
parse_token_end(p, c) ==
    IF ~is_at_end(p, c) /\ ~is_term(p, c) THEN parse_token_end(p, c + 1) ELSE c

InitTokens ==
    /\ packet \in SeqsUpTo(TokenAlphabet, MaxTokenInput)
    /\ current = 0
    /\ pc = "idle"
    /\ start = 0
    /\ tok_start = 0
    /\ name = NoSlice
    /\ args = NoSlice
    /\ parsed = NotParsed
    /\ consulted = FALSE
    /\ stream = NewStream
    /\ reply = NoReply
    /\ target = VirtualTargetNew(TRUE)

\* a next_token that leaves the cursor on the terminator
next_token_without_advance ==
    /\ pc \in {"idle", "returned"}
    /\ start' = current
    /\ IF ~is_at_end(packet, current)
       THEN /\ name' = Slice(current, parse_token_end(packet, current))
            /\ current' = parse_token_end(packet, current)
       ELSE /\ name' = NoSlice
            /\ UNCHANGED current
    /\ pc' = "returned"
    /\ UNCHANGED <<packet, tok_start, args, parsed, consulted, stream, reply, target>>

\* next_token, lines 105-113: start is the cursor the call found, name the
\* token it returned
next_token ==
    /\ pc \in {"idle", "returned"}
    /\ start' = current
    /\ IF ~is_at_end(packet, current)
       THEN /\ name' = Slice(current, parse_token_end(packet, current))
            /\ current' = parse_token_end(packet, current) + 1
       ELSE /\ name' = NoSlice
            /\ UNCHANGED current
    /\ pc' = "returned"
    /\ UNCHANGED <<packet, tok_start, args, parsed, consulted, stream, reply, target>>

NextTokens == next_token

SpecTokens == InitTokens /\ [][NextTokens]_vars

(***************************************************************************)
(* ResponseWriter (command.rs 80-149).  Every operation yields the sink as *)
(* it leaves it and its Result: [stream, result].                          *)
(***************************************************************************)
RBRACE == 125

STAR == 42

\* the sum of w[lo..hi], `$` and `#` counted or not
RECURSIVE SumRange(_, _, _, _)
SumRange(w, lo, hi, framing) ==
    IF lo > hi THEN 0
    ELSE IF lo = hi THEN (IF ~framing /\ w[lo] \in {DOLLAR, HASH} THEN 0 ELSE w[lo])
    ELSE SumRange(w, lo, (lo + hi) \div 2, framing)
         + SumRange(w, (lo + hi) \div 2 + 1, hi, framing)

\* r2 with the size of r1 added, as `size += ...?` does
AddSize(r1, r2) ==
    IF r2.result.ok
    THEN [stream |-> r2.stream, result |-> Ok(r1.result.n + r2.result.n)]
    ELSE r2

write_force(s, byte) == WriteByte(s, byte)

\* start
writer_start(s) == write_force(s, DOLLAR)

\* a write_hex that writes the low nibble first
write_hex_low_first(s, byte) ==
    LET t == to_hex_tuple(byte)
        a == write_force(s, t[2])
    IN  IF ~a.result.ok THEN a ELSE AddSize(a, write_force(a.stream, t[1]))

write_hex(s, byte) ==
    LET t == to_hex_tuple(byte)
        a == write_force(s, t[1])
    IN  IF ~a.result.ok THEN a ELSE AddSize(a, write_force(a.stream, t[2]))

\* an end that sums the bytes the buffer holds
writer_end_from_buffer(s) ==
    LET a == write_force(s, HASH)
    IN  IF ~a.result.ok THEN a
        ELSE AddSize(a, write_hex(a.stream,
                SumRange(a.stream.buffer, 1, Len(a.stream.buffer), FALSE) % 256))

\* end
writer_end(s) ==
    LET a == write_force(s, HASH)
    IN  IF ~a.result.ok THEN a
        ELSE AddSize(a, write_hex(a.stream, a.stream.chksm % 256))

\* byte ^ 0x20
escape(byte) == IF (byte \div 32) % 2 = 1 THEN byte - 32 ELSE byte + 32

RECURSIVE write(_, _)

write_escape(s, byte) ==
    LET a == write_force(s, RBRACE)
    IN  IF ~a.result.ok THEN a ELSE AddSize(a, write(a.stream, escape(byte)))

\* a write that does not escape `*`
write_without_star(s, byte) ==
    IF byte \in {RBRACE, DOLLAR, HASH} THEN write_escape(s, byte)
    ELSE write_force(s, byte)

write(s, byte) ==
    IF byte \in {RBRACE, DOLLAR, HASH, STAR} THEN write_escape(s, byte)
    ELSE write_force(s, byte)

\* the loop of write_all over bytes[lo..hi]: byte after byte, the sizes added,
\* stopping at a failed write; evaluated as the first half of the range and
\* then the second, which keeps the evaluation shallow
RECURSIVE write_all_loop(_, _, _, _)
write_all_loop(s, bytes, lo, hi) ==
    IF lo > hi THEN [stream |-> s, result |-> Ok(0)]
    ELSE IF lo = hi THEN write(s, bytes[lo])
    ELSE LET mid == (lo + hi) \div 2
             a == write_all_loop(s, bytes, lo, mid)
         IN  IF ~a.result.ok THEN a
             ELSE AddSize(a, write_all_loop(a.stream, bytes, mid + 1, hi))

\* a loop that goes on after a failed write
RECURSIVE write_all_loop_ignoring_errors(_, _, _, _)
write_all_loop_ignoring_errors(s, bytes, lo, hi) ==
    IF lo > hi THEN [stream |-> s, result |-> Ok(0)]
    ELSE IF lo = hi THEN write(s, bytes[lo])
    ELSE LET mid == (lo + hi) \div 2
             a == write_all_loop_ignoring_errors(s, bytes, lo, mid)
             b == write_all_loop_ignoring_errors(a.stream, bytes, mid + 1, hi)
         IN  [stream |-> b.stream,
              result |-> IF a.result.ok /\ b.result.ok
                         THEN Ok(a.result.n + b.result.n)
                         ELSE Err("MemoryFilledInterupt")]

\* a write_all that goes on after a failed write
write_all_ignoring_errors(s, bytes) ==
    write_all_loop_ignoring_errors(s, bytes, 1, Len(bytes))

write_all(s, bytes) == write_all_loop(s, bytes, 1, Len(bytes))

\* ok: b"OK"
writer_ok(s) == write_all(s, <<79, 75>>)

\* error: b"E00" whatever the error
writer_error(s, error) == write_all(s, <<69, 48, 48>>)

(***************************************************************************)
(* Machine words in arithmetic.  A word is compared and added through its  *)
(* high nibbles and the number its low seven nibbles make.                 *)
(***************************************************************************)
RECURSIVE NatOfNibbles(_)
NatOfNibbles(n) ==
    IF n = <<>> THEN 0 ELSE NatOfNibbles(SubSeq(n, 1, Len(n) - 1)) * 16 + n[Len(n)]

WordLow(w) == NatOfNibbles(SubSeq(w, WordNibbles - 6, WordNibbles))

WordHighIs(w, nibble) == \A i \in 1..(WordNibbles - 7) : w[i] = nibble

\* w == n, for n below 2^28
WordEquals(w, n) == WordHighIs(w, 0) /\ WordLow(w) = n

\* w >= n, for n below 2^28
WordAtLeast(w, n) == ~WordHighIs(w, 0) \/ WordLow(w) >= n

\* usize::min(w, n), for n below 2^28
WordMin(w, n) == IF WordAtLeast(w, n) THEN n ELSE WordLow(w)

\* whether w + n passes the last usize, for n below 2^28
WordAddOverflows(w, n) == WordHighIs(w, 15) /\ WordLow(w) + n >= 268435456

\* value as u32, as its four big-endian bytes
U32Bytes(w) ==
    [k \in 1..4 |-> w[WordNibbles - 8 + 2 * k - 1] * 16 + w[WordNibbles - 8 + 2 * k]]

\* value as u8
U8(w) == w[WordNibbles - 1] * 16 + w[WordNibbles]

(***************************************************************************)
(* The Target operations of VirtualTarget (target.rs 68-132).  The reads   *)
(* yield [stream, result], the writes [target, result].                    *)
(***************************************************************************)
\* a call that panicked
Panicked == [ok |-> FALSE, n |-> 0, error |-> "panic"]

\* Target::reason, which VirtualTarget leaves at its default b"S05"
reason(t) == <<83, 48, 53>>

\* the loop of rd_registers over the registers i..end-1: one after the other,
\* stopping at a failed write; evaluated as the first half of the range and
\* then the second, which keeps the evaluation shallow
RECURSIVE rd_registers_loop(_, _, _, _)
rd_registers_loop(t, s, i, end) ==
    IF i >= end THEN [stream |-> s, result |-> Ok(0)]
    ELSE IF end = i + 1 THEN to_hexu(Register(t, i), s)
    ELSE LET mid == (i + end) \div 2
             r == rd_registers_loop(t, s, i, mid)
         IN  IF ~r.result.ok THEN r ELSE rd_registers_loop(t, r.stream, mid, end)

\* the usize 2^64 - k, for k in 1..2^28, as its nibbles
WordBelowZero(k) ==
    [i \in 1..WordNibbles |->
        IF i <= WordNibbles - 7 THEN 15
        ELSE ((268435456 - k) \div (16 ^ (WordNibbles - i))) % 16]

\* Ok(stream.pos() - stream_start): where the sink was drained during the
\* call the position may lie below the one at the start, and the subtraction
\* panics in a build with overflow checks and wraps in one without; the
\* wrapped usize is given as its nibbles
PosSince(pos, stream_start, overflow_checks) ==
    IF pos >= stream_start THEN Ok(pos - stream_start)
    ELSE IF overflow_checks THEN Panicked
    ELSE Ok(WordBelowZero(stream_start - pos))

rd_registers(t, s, overflow_checks) ==
    LET r == rd_registers_loop(t, s, 0, RegisterCount)
    IN  IF ~r.result.ok THEN r
        ELSE [stream |-> r.stream,
              result |-> PosSince(StreamPos(r.stream), StreamPos(s), overflow_checks)]

\* the loop of wr_registers over the chunks i..end-1 of data: one after the
\* other, stopping at a chunk that is no number; evaluated as the first half
\* of the range and then the second
RECURSIVE wr_registers_loop(_, _, _, _, _)
wr_registers_loop(t, data, i, end, overflow_checks) ==
    IF i >= end THEN [target |-> t, result |-> Ok(0)]
    ELSE IF end = i + 1
    THEN LET value == from_hexu(SubSeq(data, 8 * i + 1, 8 * i + 8), overflow_checks)
         IN  CASE value.kind = "some" ->
                     [target |-> RegisterSet(t, i, U32Bytes(value.val)), result |-> Ok(0)]
               [] value.kind = "none" -> [target |-> t, result |-> Err("CommandError")]
               [] value.kind = "panic" -> [target |-> t, result |-> Panicked]
    ELSE LET mid == (i + end) \div 2
             r == wr_registers_loop(t, data, i, mid, overflow_checks)
         IN  IF ~r.result.ok THEN r
             ELSE wr_registers_loop(r.target, data, mid, end, overflow_checks)

wr_registers(t, data, overflow_checks) ==
    IF Len(data) % 8 # 0 \/ Len(data) # RegisterCount * 8
    THEN [target |-> t, result |-> Err("CommandError")]
    ELSE wr_registers_loop(t, data, 0, Len(data) \div 8, overflow_checks)

\* the loop of rd_memory over self.memory[i..end]: byte after byte, stopping
\* at a failed write; evaluated as the first half of the range and then the
\* second, which keeps the evaluation shallow
RECURSIVE rd_memory_loop(_, _, _, _)
rd_memory_loop(t, s, i, end) ==
    IF i >= end THEN [stream |-> s, result |-> Ok(0)]
    ELSE IF end = i + 1 THEN to_hex8(MemoryByte(t, i), s)
    ELSE LET mid == (i + end) \div 2
             r == rd_memory_loop(t, s, i, mid)
         IN  IF ~r.result.ok THEN r ELSE rd_memory_loop(t, r.stream, mid, end)

\* rd_memory(start, size, stream) for the words addr and size: `start + size`
\* may pass the last usize, which panics in a build with overflow checks and
\* wraps in one without, a slice memory[start..end] with end < start panics,
\* and so may the subtraction at the end
rd_memory(t, addr, size, s, overflow_checks) ==
    LET from == WordMin(addr, MemoryLen)
        overflows == WordAddOverflows(size, from)
        end == IF overflows THEN WordLow(size) + from - 268435456
               ELSE IF WordAtLeast(size, MemoryLen) THEN MemoryLen
               ELSE IF WordLow(size) + from >= MemoryLen THEN MemoryLen
               ELSE WordLow(size) + from
        r == rd_memory_loop(t, s, from, end)
    IN  IF overflows /\ overflow_checks THEN [stream |-> s, result |-> Panicked]
        ELSE IF end < from THEN [stream |-> s, result |-> Panicked]
        ELSE IF ~r.result.ok THEN r
        ELSE [stream |-> r.stream,
              result |-> PosSince(StreamPos(r.stream), StreamPos(s), overflow_checks)]

\* the loop of wr_memory from chunk i on, from being the start address
RECURSIVE wr_memory_loop(_, _, _, _, _)
wr_memory_loop(t, from, data, i, overflow_checks) ==
    IF 2 * i >= Len(data) THEN [target |-> t, result |-> Ok(0)]
    ELSE LET last == IF 2 * i + 2 <= Len(data) THEN 2 * i + 2 ELSE Len(data)
             value == from_hexu(SubSeq(data, 2 * i + 1, last), overflow_checks)
         IN  CASE value.kind = "some" ->
                     wr_memory_loop(MemorySet(t, i + from, U8(value.val)), from, data,
                                    i + 1, overflow_checks)
               [] value.kind = "none" -> [target |-> t, result |-> Err("CommandError")]
               [] value.kind = "panic" -> [target |-> t, result |-> Panicked]

\* wr_memory(start, data) for the word addr: `start + data.len()` may pass the
\* last usize; wrapped, end is small but start is not, so the range check
\* refuses
wr_memory(t, addr, data, overflow_checks) ==
    IF WordAddOverflows(addr, Len(data))
    THEN [target |-> t,
          result |-> IF overflow_checks THEN Panicked ELSE Err("AddressOutOfRange")]
    ELSE IF WordAtLeast(addr, MemoryLen) \/ WordLow(addr) + Len(data) >= MemoryLen
    THEN [target |-> t, result |-> Err("AddressOutOfRange")]
    ELSE wr_memory_loop(t, WordLow(addr), data, 0, overflow_checks)

(***************************************************************************)
(* The replies of the commands (command.rs 238-249, required.rs).  Each    *)
(* yields the sink, the target and the Result: [stream, target, result].   *)
(***************************************************************************)
Replied(r, t) == [stream |-> r.stream, target |-> t, result |-> r.result]

\* the reply ends with Ok(stream.pos()) once r, its last write, went well
RepliedPos(r, t) ==
    [stream |-> r.stream, target |-> t,
     result |-> IF r.result.ok THEN Ok(StreamPos(r.stream)) ELSE r.result]

\* parser.next_token() with the cursor at c: the token and the cursor after
token_at(fields, c) ==
    IF ~is_at_end(fields, c)
    THEN [some |-> TRUE, bytes |-> SubSeq(fields, c + 1, parse_token_end(fields, c)),
          current |-> parse_token_end(fields, c) + 1]
    ELSE [some |-> FALSE, bytes |-> <<>>, current |-> c]

NotImplemented_response(s, t) ==
    LET a == writer_start(StreamReset(s))
    IN  IF ~a.result.ok THEN Replied(a, t)
        ELSE Replied(AddSize(a, writer_end(a.stream)), t)

ReasonCommand_response(s, t) ==
    LET a == writer_start(StreamReset(s))
        b == write_all(a.stream, reason(t))
    IN  IF ~a.result.ok THEN Replied(a, t)
        ELSE IF ~b.result.ok THEN Replied(b, t)
        ELSE Replied(writer_end(b.stream), t)

\* ReadRegisters as it would be without `stream.reset()`
ReadRegistersCommand_response_without_reset(s, t, overflow_checks) ==
    LET a == writer_start(s)
        b == rd_registers(t, a.stream, overflow_checks)
    IN  IF ~a.result.ok THEN Replied(a, t)
        ELSE IF ~b.result.ok THEN Replied(b, t)
        ELSE RepliedPos(writer_end(b.stream), t)

ReadRegistersCommand_response(s, t, overflow_checks) ==
    LET a == writer_start(StreamReset(s))
        b == rd_registers(t, a.stream, overflow_checks)
    IN  IF ~a.result.ok THEN Replied(a, t)
        ELSE IF ~b.result.ok THEN Replied(b, t)
        ELSE RepliedPos(writer_end(b.stream), t)

\* WriteRegisters as it would be with `?` on the call of the target
WriteRegistersCommand_response_surfacing(fields, s, t, overflow_checks) ==
    LET a == writer_start(StreamReset(s))
        w == wr_registers(t, fields, overflow_checks)
        b == writer_ok(a.stream)
    IN  IF ~a.result.ok THEN Replied(a, t)
        ELSE IF ~w.result.ok THEN Replied([stream |-> a.stream, result |-> w.result], w.target)
        ELSE IF ~b.result.ok THEN Replied(b, w.target)
        ELSE RepliedPos(writer_end(b.stream), w.target)

WriteRegistersCommand_response(fields, s, t, overflow_checks) ==
    LET a == writer_start(StreamReset(s))
        w == wr_registers(t, fields, overflow_checks)
        b == IF w.result.ok THEN writer_ok(a.stream)
             ELSE writer_error(a.stream, w.result.error)
    IN  IF ~a.result.ok THEN Replied(a, t)
        ELSE IF w.result = Panicked THEN Replied([stream |-> a.stream, result |-> Panicked], w.target)
        ELSE IF ~b.result.ok THEN Replied(b, w.target)
        ELSE RepliedPos(writer_end(b.stream), w.target)

ReadMemoryCommand_response(fields, s, t, overflow_checks) ==
    LET a == writer_start(StreamReset(s))
        addr_token == token_at(fields, 0)
        size_token == token_at(fields, addr_token.current)
        addr == from_hexu(addr_token.bytes, overflow_checks)
        size == from_hexu(size_token.bytes, overflow_checks)
        b == rd_memory(t, addr.val, size.val, a.stream, overflow_checks)
        failed(error) == Replied([stream |-> a.stream, result |-> error], t)
    IN  IF ~a.result.ok THEN Replied(a, t)
        ELSE IF ~(addr_token.some /\ size_token.some) THEN failed(Err("InsufficientArguments"))
        ELSE IF addr.kind = "panic" \/ size.kind = "panic" THEN failed(Panicked)
        ELSE IF ~(addr.kind = "some" /\ size.kind = "some") THEN failed(Err("BadNumber"))
        ELSE IF ~b.result.ok THEN Replied(b, t)
        ELSE RepliedPos(writer_end(b.stream), t)

\* WriteMemory as it would be with the call of the target ahead of the
\* comparison of the lengths
WriteMemoryCommand_response_writing_first(fields, s, t, overflow_checks) ==
    LET a == writer_start(StreamReset(s))
        addr_token == token_at(fields, 0)
        size_token == token_at(fields, addr_token.current)
        bytes_token == token_at(fields, size_token.current)
        addr == from_hexu(addr_token.bytes, overflow_checks)
        size == from_hexu(size_token.bytes, overflow_checks)
        w == wr_memory(t, addr.val, bytes_token.bytes, overflow_checks)
        b == writer_ok(a.stream)
        failed(error, tt) == Replied([stream |-> a.stream, result |-> error], tt)
    IN  IF ~a.result.ok THEN Replied(a, t)
        ELSE IF ~(addr_token.some /\ size_token.some /\ bytes_token.some)
        THEN failed(Err("InsufficientArguments"), t)
        ELSE IF addr.kind = "panic" \/ size.kind = "panic" THEN failed(Panicked, t)
        ELSE IF ~(addr.kind = "some" /\ size.kind = "some") THEN failed(Err("BadNumber"), t)
        ELSE IF ~w.result.ok THEN failed(w.result, w.target)
        ELSE IF ~WordEquals(size.val, Len(bytes_token.bytes) \div 2)
        THEN failed(Err("LengthMismatch"), w.target)
        ELSE IF ~b.result.ok THEN Replied(b, w.target)
        ELSE RepliedPos(writer_end(b.stream), w.target)

WriteMemoryCommand_response(fields, s, t, overflow_checks) ==
    LET a == writer_start(StreamReset(s))
        addr_token == token_at(fields, 0)
        size_token == token_at(fields, addr_token.current)
        bytes_token == token_at(fields, size_token.current)
        addr == from_hexu(addr_token.bytes, overflow_checks)
        size == from_hexu(size_token.bytes, overflow_checks)
        w == wr_memory(t, addr.val, bytes_token.bytes, overflow_checks)
        b == writer_ok(a.stream)
        failed(error, tt) == Replied([stream |-> a.stream, result |-> error], tt)
    IN  IF ~a.result.ok THEN Replied(a, t)
        ELSE IF ~(addr_token.some /\ size_token.some /\ bytes_token.some)
        THEN failed(Err("InsufficientArguments"), t)
        ELSE IF addr.kind = "panic" \/ size.kind = "panic" THEN failed(Panicked, t)
        ELSE IF ~(addr.kind = "some" /\ size.kind = "some") THEN failed(Err("BadNumber"), t)
        ELSE IF ~WordEquals(size.val, Len(bytes_token.bytes) \div 2)
        THEN failed(Err("LengthMismatch"), t)
        ELSE IF ~w.result.ok THEN failed(w.result, w.target)
        ELSE IF ~b.result.ok THEN Replied(b, w.target)
        ELSE RepliedPos(writer_end(b.stream), w.target)

\* Commands::response, lines 46-62
Commands_response(cmd, s, t, overflow_checks) ==
    CASE cmd.kind = "NotImplemented" -> NotImplemented_response(s, t)
      [] cmd.kind = "Reason" -> ReasonCommand_response(s, t)
      [] cmd.kind = "ReadRegister" -> ReadRegistersCommand_response(s, t, overflow_checks)
      [] cmd.kind = "WriteRegister" ->
            WriteRegistersCommand_response(cmd.fields, s, t, overflow_checks)
      [] cmd.kind = "ReadMemory" ->
            ReadMemoryCommand_response(cmd.fields, s, t, overflow_checks)
      [] cmd.kind = "WriteMemory" ->
            WriteMemoryCommand_response(cmd.fields, s, t, overflow_checks)
      [] OTHER -> Replied(response(cmd, s), t)

(***************************************************************************)
(* The writer and the commands at work on a sink and a target: writer      *)
(* calls on a sink as it stands (start, write_all, end) with `packet` as   *)
(* the bytes to write, and the reply of the command whose name is the      *)
(* first byte of `packet` and whose arguments are the rest of it.          *)
(* SpecWriter runs the writer over payloads that need escapes, SpecReply   *)
(* the writer and the commands over payloads of commands.                  *)
(***************************************************************************)
\* longest payload handed to write_all
MaxWrite == 3
\* how often the drain callback agrees at most
MaxDrains == 1
\* how many bytes short of full a sink in use is at least
MaxGap == 2

WriterAlphabet == {RBRACE, DOLLAR, HASH, STAR, 93}

WriterPayloads == SeqsUpTo(WriterAlphabet, MaxWrite)

\* a sink into which byte b (not `$` or `#`) was written n times
Prefilled(b, n, drains) ==
    [buffer |-> [i \in 1..n |-> b], chksm |-> n * b, sent |-> <<>>, drains |-> drains,
     refused |-> 0]

\* sinks empty, after an Acknowledge, and full or nearly so
Sinks ==
    {Prefilled(PLUS, n, d) : n \in {0, 1}, d \in 0..MaxDrains}
    \cup {Prefilled(LOWER_F, n, d) : n \in (StreamLen - MaxGap)..StreamLen,
                                     d \in 0..MaxDrains}

\* addr tokens "", "0", "1fe", "200", "g", "10000000000000000"
AddrTokens ==
    {<<>>, <<48>>, <<49, 102, 101>>, <<50, 48, 48>>, <<103>>,
     [i \in 1..(WordNibbles + 1) |-> IF i = 1 THEN 49 ELSE DIGIT_0]}

\* size tokens "", "2", "ff", "100", "200", "g", "ffffffffffffffff"
SizeTokens ==
    {<<>>, <<50>>, <<102, 102>>, <<49, 48, 48>>, <<50, 48, 48>>, <<103>>,
     [i \in 1..WordNibbles |-> LOWER_F]}

\* data tokens "", "ab", "Cd", "abcd", "abc", "zz", "abzz"
DataTokens ==
    {<<>>, <<97, 98>>, <<67, 100>>, <<97, 98, 99, 100>>, <<97, 98, 99>>, <<122, 122>>,
     <<97, 98, 122, 122>>}

\* arguments of `m`: addr alone, and addr,size
ReadMemoryArgs ==
    AddrTokens \cup {a \o <<COMMA>> \o z : a \in AddrTokens, z \in SizeTokens}

\* arguments of `M`: "0,2" without data, "g,2:ab", "0,g:ab", and
\* addr,size:data at the addresses "0", "1fe", "200" for the sizes "", "1", "2"
WriteMemoryArgs ==
    {<<48, COMMA, 50>>, <<103, COMMA, 50, COLON, 97, 98>>, <<48, COMMA, 103, COLON, 97, 98>>}
    \cup {a \o <<COMMA>> \o z \o <<COLON>> \o d :
            a \in {<<48>>, <<49, 102, 101>>, <<50, 48, 48>>},
            z \in {<<>>, <<49>>, <<50>>}, d \in DataTokens}

\* the chunks "00000000", "deadBEEF", "0000000g", and NUL before "0000000"
RegisterChunks ==
    {<<48, 48, 48, 48, 48, 48, 48, 48>>, <<100, 101, 97, 100, 66, 69, 69, 70>>,
     <<48, 48, 48, 48, 48, 48, 48, 103>>, <<NUL, 48, 48, 48, 48, 48, 48, 48>>}

\* n chunks, all c but the third, which is d
RegisterImage(n, c, d) ==
    [k \in 1..(8 * n) |-> IF (k - 1) \div 8 = 2 THEN d[((k - 1) % 8) + 1]
                          ELSE c[((k - 1) % 8) + 1]]

RegisterArgs ==
    {RegisterImage(n, c, d) :
        n \in {RegisterCount - 1, RegisterCount}, c \in RegisterChunks, d \in RegisterChunks}

\* payloads: a name and what follows it
CommandPayloads ==
    {<<QUESTION>>, <<LOWER_G>>, <<LOWER_V>>}
    \cup {<<LOWER_M>> \o a : a \in ReadMemoryArgs}
    \cup {<<UPPER_M>> \o a : a \in WriteMemoryArgs}
    \cup {<<UPPER_G>> \o a : a \in RegisterArgs}

ResponseValues ==
    {RetransmitLast, AcknowledgeLast, Acknowledge, Retransmit("InvalidChecksum"),
     Command("NoCommand", "", <<>>), Command("Unsupported", "", <<>>)}

InitWriter ==
    /\ packet \in WriterPayloads
    /\ stream \in Sinks
    /\ target = VirtualTargetNew(TRUE)
    /\ current = 0
    /\ pc = "idle"
    /\ start = 0
    /\ tok_start = 0
    /\ name = NoSlice
    /\ args = NoSlice
    /\ parsed = NotParsed
    /\ consulted = FALSE
    /\ reply = NoReply

InitReply ==
    /\ packet \in CommandPayloads
    /\ stream \in Sinks
    /\ target \in {VirtualTargetNew(h) : h \in BOOLEAN}
    /\ current = 0
    /\ pc = "idle"
    /\ start = 0
    /\ tok_start = 0
    /\ name = NoSlice
    /\ args = NoSlice
    /\ parsed = NotParsed
    /\ consulted = FALSE
    /\ reply = NoReply

ReplyFrame == UNCHANGED <<packet, current, start, tok_start, name, args, consulted>>

\* the sink as a call finds it, no write of the call refused yet
Sink == [stream EXCEPT !.refused = 0]

\* the caller got r back from a writer call
Wrote(r) ==
    /\ stream' = r.stream
    /\ reply' = r.result

\* ResponseWriter::start on the sink as it stands
call_start ==
    /\ pc = "idle"
    /\ LET r == writer_start(Sink) IN Wrote(r)
    /\ pc' = "started"
    /\ UNCHANGED <<parsed, target>>
    /\ ReplyFrame

\* ResponseWriter::write_all(stream, packet)
call_write_all ==
    /\ pc \in {"idle", "started"}
    /\ LET r == write_all(Sink, packet) IN Wrote(r)
    /\ pc' = "written"
    /\ UNCHANGED <<parsed, target>>
    /\ ReplyFrame

\* ResponseWriter::end after a write_all that went well
call_end ==
    /\ pc = "written"
    /\ reply.ok
    /\ LET r == writer_end(Sink) IN Wrote(r)
    /\ pc' = "ended"
    /\ UNCHANGED <<parsed, target>>
    /\ ReplyFrame

\* the caller got r back from response, or the call panicked
Responded(r) ==
    /\ stream' = r.stream
    /\ target' = r.target
    /\ reply' = r.result
    /\ pc' = IF r.result = Panicked THEN "panic" ELSE "replied"

\* the reply of the command the registry builds for the name and the
\* arguments of the payload, in a build with or without overflow checks
reply_command ==
    /\ pc = "idle"
    /\ packet # <<>>
    /\ parsed' = commands(SubSeq(packet, 1, 1), Tail(packet))
    /\ \E overflow_checks \in BOOLEAN :
          LET r == Commands_response(commands(SubSeq(packet, 1, 1), Tail(packet)).command,
                                     Sink, target, overflow_checks)
          IN  Responded(r)
    /\ ReplyFrame

\* the reply of a value the parser returns as Parsed.response
reply_parsed_response ==
    /\ pc = "idle"
    /\ \E r \in ResponseValues :
          /\ parsed' = Parsed(r, None)
          /\ LET a == Commands_response(r, Sink, target, TRUE) IN Responded(a)
    /\ ReplyFrame

NextWriter ==
    \/ call_start
    \/ call_write_all
    \/ call_end

SpecWriter == InitWriter /\ [][NextWriter]_vars

NextReply ==
    \/ call_start
    \/ call_write_all
    \/ call_end
    \/ reply_command
    \/ reply_parsed_response

SpecReply == InitReply /\ [][NextReply]_vars

(***************************************************************************)
(* C11: each call of next_token made before the end of the input returns   *)
(* the run of non-terminator bytes from the cursor up to the next          *)
(* terminator or the end (empty when the cursor is on a terminator) and    *)
(* leaves the cursor one past that terminator, where the next call begins; *)
(* a call made with the cursor at or past the end returns none and leaves  *)
(* the cursor alone.                                                       *)
(***************************************************************************)
C11_TokenReturned ==
    pc = "returned" =>
        IF start < Len(packet)
        THEN /\ name.some
             /\ name.lo = start
             /\ name.hi \in start..Len(packet)
             /\ \A i \in (name.lo + 1)..name.hi : packet[i] \notin Terminators
             /\ name.hi < Len(packet) => packet[name.hi + 1] \in Terminators
             /\ current = name.hi + 1
        ELSE name = NoSlice /\ current = start

C11_CallsInOrder == (pc = "returned") => (start' = current)

C11_Tokens == [] C11_TokenReturned /\ [][C11_CallsInOrder]_vars

\* the empty token between the `,` and the `;` of "g,;0"
C11_Witness ==
    /\ pc = "returned"
    /\ packet = <<LOWER_G, COMMA, SEMICOLON, DIGIT_0>>
    /\ start = 2
    /\ name = Slice(2, 2)
    /\ current = 3

\* the call after the last token of "g,;0" returns none
C11_WitnessEnd ==
    /\ pc = "returned"
    /\ packet = <<LOWER_G, COMMA, SEMICOLON, DIGIT_0>>
    /\ start = 5
    /\ name = NoSlice

(***************************************************************************)
(* C12: for every byte slice s, chksm(s) is the sum modulo 256 of the      *)
(* bytes of s before its first `#` (of all its bytes if it has none), `$`  *)
(* bytes not counted; the result is in 0..255.                             *)
(***************************************************************************)
C12_Checksum ==
    pc = "chksm" =>
        /\ reply = Some(Sum(WithoutDollar(SubSeq(packet, 1, FirstHash(packet, 0)))) % 256)
        /\ reply.val \in 0..255

\* a sum above 255 that stops at the `#`
C12_Witness ==
    /\ pc = "chksm"
    /\ packet = <<255, 255, HASH>>
    /\ reply = Some(254)

(***************************************************************************)
(* Vocabulary of the properties of the writer and the replies.             *)
(***************************************************************************)
\* all that was written into the sink since its last reset, drained or not
Wire == stream.sent \o stream.buffer

\* the two lowercase hex digits of n
Digits(n) == <<LowerHexDigits[(n \div 16) + 1], LowerHexDigits[(n % 16) + 1]>>

\* b with bit 5 flipped
Flip(b) == IF b % 64 >= 32 THEN b - 32 ELSE b + 32

\* the escape rule, byte by byte: `}` -> `}]`, `$` -> `}` 0x04, `#` -> `}` 0x03,
\* `*` -> `}` 0x0a
RECURSIVE Escaped(_)
Escaped(payload) ==
    IF payload = <<>> THEN <<>>
    ELSE (CASE Head(payload) = RBRACE -> <<RBRACE, 93>>
            [] Head(payload) = DOLLAR -> <<RBRACE, 4>>
            [] Head(payload) = HASH -> <<RBRACE, 3>>
            [] Head(payload) = STAR -> <<RBRACE, 10>>
            [] OTHER -> <<Head(payload)>>) \o Escaped(Tail(payload))

\* the inverse rule: `}` x stands for x with bit 5 flipped
RECURSIVE Unescaped(_)
Unescaped(e) ==
    IF e = <<>> THEN <<>>
    ELSE IF Head(e) = RBRACE /\ Len(e) >= 2
    THEN <<Flip(e[2])>> \o Unescaped(SubSeq(e, 3, Len(e)))
    ELSE <<Head(e)>> \o Unescaped(Tail(e))

\* the value the last reply was the reply of
Replying == IF parsed.command # None THEN parsed.command ELSE parsed.response

FramedKinds ==
    {"NotImplemented", "Reason", "ReadRegister", "WriteRegister", "ReadMemory",
     "WriteMemory"}

(***************************************************************************)
(* C13: a write_all that went well has put into the sink exactly the       *)
(* escaped payload: for each byte of `}`, `$`, `#`, `*` the two bytes `}`  *)
(* and the byte XOR 0x20, every other byte as it is, nothing escaped       *)
(* twice; what it put there holds no raw `$`, `#` or `*`, the inverse rule *)
(* gives the payload back, and the size returned is the number of bytes.   *)
(***************************************************************************)
C13_Escapes ==
    (pc = "written" /\ reply.ok) =>
        LET emitted == SubSeq(Wire, Len(Wire) - reply.n + 1, Len(Wire))
        IN  /\ reply.n = Len(Escaped(packet))
            /\ reply.n <= Len(Wire)
            /\ emitted = Escaped(packet)
            /\ \A i \in 1..Len(emitted) : emitted[i] \notin {DOLLAR, HASH, STAR}
            /\ Unescaped(emitted) = packet

\* `$`, `}` and `*` written into an empty sink
C13_Witness ==
    /\ pc = "written"
    /\ packet = <<DOLLAR, RBRACE, STAR>>
    /\ stream.buffer = <<RBRACE, 4, RBRACE, 93, RBRACE, 10>>
    /\ reply = Ok(6)

(***************************************************************************)
(* C14: a reply of NotImplemented, Reason, ReadRegisters, WriteRegisters,  *)
(* ReadMemory or WriteMemory that went well has put on the wire `$`, a     *)
(* payload without `$` and `#`, `#`, and the two lowercase hex digits of   *)
(* the sum modulo 256 of the payload bytes as written, whatever the sink   *)
(* held from an earlier reply.                                             *)
(***************************************************************************)
C14_FramedReply ==
    (pc = "replied" /\ reply.ok /\ Replying.kind \in FramedKinds) =>
        LET n == Len(Wire)
        IN  /\ n >= 4
            /\ Wire[1] = DOLLAR
            /\ \A i \in 2..(n - 3) : Wire[i] \notin {DOLLAR, HASH}
            /\ Wire[n - 2] = HASH
            /\ <<Wire[n - 1], Wire[n]>> = Digits(SumRange(Wire, 2, n - 3, TRUE) % 256)

\* the registers as reset on a little-endian host, sum 0xc0
C14_Witness ==
    /\ pc = "replied"
    /\ Replying.kind = "ReadRegister"
    /\ reply.ok
    /\ Len(stream.buffer) = 308
    /\ SubSeq(stream.buffer, 1, 9) = <<DOLLAR, 48, 49, 48, 48, 48, 48, 48, 48>>
    /\ SubSeq(stream.buffer, 306, 308) = <<HASH, 99, 48>>

(***************************************************************************)
(* C15: a reply that went well returns the number of bytes it wrote into   *)
(* the sink: all that is on the wire since the reset it begins with, and 0 *)
(* for the variants that write nothing.                                    *)
(***************************************************************************)
C15_TotalReturned ==
    (pc = "replied" /\ reply.ok) =>
        reply.n = IF Replying.kind \in {"NoCommand", "Unsupported", "RetransmitLast",
                                        "AcknowledgeLast"}
                  THEN 0 ELSE Len(Wire)

(***************************************************************************)
(* C16: in a writer call or a reply at most one write is refused, the call *)
(* returns MemoryFilledInterupt exactly when one was, and the refused      *)
(* write found the sink full and left it so: nothing is written after it.  *)
(***************************************************************************)
C16_StopsAtRefusal ==
    pc \in {"started", "written", "ended", "replied"} =>
        /\ stream.refused <= 1
        /\ stream.refused = 1 <=> reply = Err("MemoryFilledInterupt")
        /\ stream.refused = 1 => StreamPos(stream) = StreamLen

\* a read of memory that fills the sink, the drain callback declining
C16_Witness ==
    /\ pc = "replied"
    /\ Replying.kind = "ReadMemory"
    /\ reply = Err("MemoryFilledInterupt")
    /\ stream.refused = 1
    /\ StreamPos(stream) = StreamLen

\* a write_all whose second byte the full sink refuses
C16_WitnessWriter ==
    /\ pc = "written"
    /\ reply = Err("MemoryFilledInterupt")
    /\ stream.refused = 1
    /\ stream.buffer[StreamLen] = packet[1]

(***************************************************************************)
(* C17: the running checksum of the sink is the sum of all bytes written   *)
(* since the reset other than `$` and `#`, drained or still in the buffer, *)
(* so the digits that end writes are those of all bytes before the `#`;    *)
(* and no writer call moves the position back unless a drain took place.   *)
(***************************************************************************)
C17_Sum == stream.chksm = SumRange(Wire, 1, Len(Wire), FALSE)

C17_Digits ==
    (pc = "ended" /\ reply.ok) =>
        LET n == Len(Wire)
        IN  /\ Wire[n - 2] = HASH
            /\ <<Wire[n - 1], Wire[n]>> = Digits(SumRange(Wire, 1, n - 3, FALSE) % 256)

C17_PositionGrows ==
    \/ StreamPos(stream') >= StreamPos(stream)
    \/ Len(stream'.sent) > Len(stream.sent)

C17_ChecksumAcrossDrains == [] (C17_Sum /\ C17_Digits) /\ [][C17_PositionGrows]_vars

\* a drain between the bytes of the payload, and end went well after it
C17_Witness ==
    /\ pc = "ended"
    /\ reply.ok
    /\ Len(stream.sent) = StreamLen
    /\ Len(packet) >= 2
    /\ stream.sent[StreamLen] = packet[1]

(***************************************************************************)
(* C18: for n in 0..15 to_hex(n) is the lowercase hex digit of n and       *)
(* from_hex(to_hex(n)) = n; for n >= 16 to_hex fails; from_hex accepts     *)
(* exactly `0`-`9`, `a`-`f`, `A`-`F` and fails on every other byte.        *)
(***************************************************************************)
C18_Nibbles ==
    /\ pc = "to_hex" =>
          IF packet[1] <= 15 THEN reply = Some(LowerHexDigits[packet[1] + 1])
          ELSE reply = Nothing
    /\ pc = "to_hex_from_hex" => reply = Some(packet[1])
    /\ pc = "from_hex" =>
          IF HexValue(packet[1]) < 16 THEN reply = Some(HexValue(packet[1]))
          ELSE reply = Nothing

\* the round trip of 10, through `a`
C18_Witness ==
    /\ pc = "to_hex_from_hex"
    /\ packet = <<10>>
    /\ reply = Some(10)

(***************************************************************************)
(* C19: for every non-empty byte sequence B no longer than a machine word  *)
(* to_hexu writes 2 * len(B) lowercase hex digits, byte by byte in the     *)
(* given order and the high nibble first, and from_hexu of those digits is *)
(* the unsigned integer whose big-endian bytes are B.                      *)
(***************************************************************************)
C19_HexRoundTrip ==
    (Len(packet) >= 1 /\ 2 * Len(packet) <= WordNibbles) =>
        /\ pc = "to_hexu" =>
              /\ Len(stream.buffer) = 2 * Len(packet)
              /\ \A i \in 1..Len(stream.buffer) :
                    stream.buffer[i] = LowerHexDigits[NibblesOf(packet)[i] + 1]
        /\ pc = "to_hexu_from_hexu" => reply = Some(WordOfNibbles(NibblesOf(packet)))

\* 0x00afff comes back as the word 0xafff
C19_Witness ==
    /\ pc = "to_hexu_from_hexu"
    /\ packet = <<NUL, 175, 255>>
    /\ stream.buffer = <<48, 48, 97, 102, 102, 102>>
    /\ reply = Some(WordOfNibbles(<<10, 15, 15, 15>>))

(***************************************************************************)
(* C20: from_hexu reads only the bytes before the first NUL of its         *)
(* argument, and for the empty slice, or one that begins with NUL, it      *)
(* yields 0 rather than failing.                                           *)
(***************************************************************************)
C20_NulEndsAndEmptyIsZero ==
    pc = "from_hexu" =>
        LET digits == SubSeq(packet, 1, end_index(packet))
        IN  /\ reply \in {from_hexu(digits, c) : c \in BOOLEAN}
            /\ digits = <<>> => reply = Some(ZeroWord)

(***************************************************************************)
(* Vocabulary of the properties of the arguments of the memory commands:   *)
(* the tokens of an argument slice as the protocol text describes them,    *)
(* separated by one terminator each, and the numbers they spell.           *)
(***************************************************************************)
\* the index (1-based) of the first terminator of f at or after from, or the
\* index after the last byte
TokenEnd(f, from) ==
    IF from > Len(f) THEN from
    ELSE CHOOSE j \in from..(Len(f) + 1) :
            /\ j = Len(f) + 1 \/ f[j] \in Terminators
            /\ \A i \in from..(j - 1) : f[i] \notin Terminators

\* where the k-th token of f begins, for k in 1..3
TokenStart(f, k) ==
    CASE k = 1 -> 1
      [] k = 2 -> TokenEnd(f, 1) + 1
      [] k = 3 -> TokenEnd(f, TokenEnd(f, 1) + 1) + 1

\* f has a k-th token: bytes are left where it begins
HasToken(f, k) == TokenStart(f, k) <= Len(f)

Token(f, k) == SubSeq(f, TokenStart(f, k), TokenEnd(f, TokenStart(f, k)) - 1)

\* tok spells a hex number that fits a machine word (no digit at all
\* spells 0)
IsHexNumber(tok) ==
    /\ Len(tok) <= WordNibbles
    /\ \A i \in 1..Len(tok) : HexValue(tok[i]) < 16

\* min(the number the hex digits of tok spell, cap)
Capped(tok, cap) ==
    LET upto[i \in 0..Len(tok)] ==
            IF i = 0 THEN 0
            ELSE IF upto[i - 1] * 16 + HexValue(tok[i]) >= cap THEN cap
            ELSE upto[i - 1] * 16 + HexValue(tok[i])
    IN  upto[Len(tok)]

\* `$` payload `#` and the two digits of the sum of the payload
FrameOf(payload) ==
    <<DOLLAR>> \o payload \o <<HASH>>
        \o Digits(SumRange(payload, 1, Len(payload), TRUE) % 256)

\* the target as every behaviour of SpecReply begins with it
Untouched == target = VirtualTargetNew(target.little_endian_host)

\* how many bytes of the memory lie in [addr, addr + size)
Readable(addr_token, size_token) ==
    IF Capped(addr_token, MemoryLen) >= MemoryLen THEN 0
    ELSE IF Capped(size_token, MemoryLen) <= MemoryLen - Capped(addr_token, MemoryLen)
    THEN Capped(size_token, MemoryLen)
    ELSE MemoryLen - Capped(addr_token, MemoryLen)

(***************************************************************************)
(* C21: the reply of ReadMemory, for every argument slice and a sink that  *)
(* refuses no write: with fewer than two tokens it returns                 *)
(* InsufficientArguments; else if addr or size is no hex number it returns *)
(* BadNumber; else it goes well and has put on the wire the frame of what  *)
(* read_memory emits, the hex pairs of the memory (all zero after new())   *)
(* in the range asked for.                                                 *)
(***************************************************************************)
C21_ReadMemoryArguments ==
    (pc \in {"replied", "panic"} /\ Replying.kind = "ReadMemory" /\ stream.refused = 0) =>
        LET f == Replying.fields
        IN  IF ~(HasToken(f, 1) /\ HasToken(f, 2))
            THEN reply = Err("InsufficientArguments")
            ELSE IF ~(IsHexNumber(Token(f, 1)) /\ IsHexNumber(Token(f, 2)))
            THEN reply = Err("BadNumber")
            ELSE /\ reply.ok
                 /\ Wire = FrameOf([i \in 1..(2 * Readable(Token(f, 1), Token(f, 2))) |->
                                       DIGIT_0])

(***************************************************************************)
(* C22: a reply of WriteMemory that returns, returns InsufficientArguments *)
(* with fewer than three tokens, and with addr and size hex numbers it     *)
(* hands the data to write_memory only when the bytes token is 2 * size    *)
(* long: for every other length it returns LengthMismatch and the target   *)
(* is as it was.                                                           *)
(***************************************************************************)
C22_WriteMemoryLength ==
    (pc = "replied" /\ Replying.kind = "WriteMemory") =>
        LET f == Replying.fields
        IN  IF ~(HasToken(f, 1) /\ HasToken(f, 2) /\ HasToken(f, 3))
            THEN reply = Err("InsufficientArguments")
            ELSE (/\ IsHexNumber(Token(f, 1))
                  /\ IsHexNumber(Token(f, 2))
                  /\ Len(Token(f, 3)) # 2 * Capped(Token(f, 2), MemoryLen)) =>
                     /\ reply = Err("LengthMismatch")
                     /\ Untouched

\* the registers image of a `G` is one the target takes: 38 chunks of
\* eight bytes, hex digits up to the first NUL of the chunk
TakenImage(fields) ==
    /\ Len(fields) = 8 * RegisterCount
    /\ \A i \in 1..Len(fields) :
          \/ HexValue(fields[i]) < 16
          \/ \E j \in (i - ((i - 1) % 8))..i : fields[j] = NUL

(***************************************************************************)
(* C23: a reply of WriteRegisters that returns, returns success whatever   *)
(* write_registers returned: the sink then holds exactly `$OK#9a` when the *)
(* target took the image and exactly `$E00#a5` when it returned an error.  *)
(***************************************************************************)
C23_WriteRegistersNeverFails ==
    (pc = "replied" /\ Replying.kind = "WriteRegister") =>
        /\ reply.ok
        /\ stream.sent = <<>>
        /\ stream.buffer = IF TakenImage(Replying.fields)
                           THEN <<DOLLAR, 79, 75, HASH, 57, 97>>
                           ELSE <<DOLLAR, 69, 48, 48, HASH, 97, 53>>

\* an image with a chunk that is no hex number, into a sink that was full
C23_Witness ==
    /\ pc = "replied"
    /\ Replying.kind = "WriteRegister"
    /\ Len(Replying.fields) = 8 * RegisterCount
    /\ ~TakenImage(Replying.fields)
    /\ reply.ok
    /\ stream.buffer = <<DOLLAR, 69, 48, 48, HASH, 97, 53>>

(***************************************************************************)
(* A session on one sink and one target, as the tests' exec_packet runs    *)
(* it: the reply of the response value and then the reply of the command   *)
(* of a packet, and after it the reply of the next packet, which is the    *)
(* same command once more or the read of the range a write named.  A       *)
(* caller may also reply with the command alone.                           *)
(***************************************************************************)
InitSession ==
    /\ packet \in CommandPayloads
    /\ stream \in Sinks
    /\ target \in {VirtualTargetNew(h) : h \in BOOLEAN}
    /\ current = 0
    /\ pc = "idle"
    /\ start = 0
    /\ tok_start = 0
    /\ name = NoSlice
    /\ args = NoSlice
    /\ parsed = NotParsed
    /\ consulted = FALSE
    /\ reply = NoReply

\* `size += ...?` of exec_packet: the size so far and what the reply returned
Sized(size, result) == IF result.ok THEN Ok(size + result.n) ELSE result

\* the build is one in which the reply of the WriteMemory with these fields
\* returns: with the overflow checks only when that reply does not panic
\* with them
WriteReturns(fields, overflow_checks) ==
    overflow_checks =>
        WriteMemoryCommand_response(fields, Sink, target, TRUE).result # Panicked

\* exec_packet, `if let Some(response)`: the reply of the response value
exec_packet_response ==
    /\ pc = "idle"
    /\ packet # <<>>
    /\ parsed' = commands(SubSeq(packet, 1, 1), Tail(packet))
    /\ LET r == response(commands(SubSeq(packet, 1, 1), Tail(packet)).response, Sink)
       IN  /\ stream' = r.stream
           /\ reply' = Sized(0, r.result)
           /\ pc' = IF r.result.ok THEN "acknowledged" ELSE "replied"
    /\ UNCHANGED target
    /\ ReplyFrame

\* exec_packet got r back from the reply of the command, or the call
\* panicked
Executed(r) ==
    /\ stream' = r.stream
    /\ target' = r.target
    /\ reply' = Sized(reply.n, r.result)
    /\ pc' = IF r.result = Panicked THEN "panic" ELSE "replied"

\* exec_packet, `if let Some(command)`: the reply of the command
exec_packet_command ==
    /\ pc = "acknowledged"
    /\ \E overflow_checks \in BOOLEAN :
          Executed(Commands_response(parsed.command, Sink, target, overflow_checks))
    /\ UNCHANGED parsed
    /\ ReplyFrame

\* the caller got r back from the reply of the next packet and is at `at`,
\* or the call panicked
Answered(r, at) ==
    /\ stream' = r.stream
    /\ target' = r.target
    /\ reply' = r.result
    /\ pc' = IF r.result = Panicked THEN "panic" ELSE at

\* the caller got r back from the same reply once more, in a build with the
\* overflow checks only if the reply does not panic with them
Repeated(r, overflow_checks) ==
    /\ overflow_checks => r.result # Panicked
    /\ Answered(r, "again")

\* the reply of the same command once more, sink and target as they stand;
\* the build is the one in which the first reply returned, so with the
\* overflow checks only when the reply does not panic with them
reply_again ==
    /\ pc = "replied"
    /\ \E overflow_checks \in BOOLEAN :
          Repeated(Commands_response(parsed.command, Sink, target, overflow_checks),
                   overflow_checks)
    /\ UNCHANGED parsed
    /\ ReplyFrame

\* the arguments of the `m` that reads what the `M` with fields f wrote
ReadBackArgs(f) ==
    IF HasToken(f, 2) THEN Token(f, 1) \o <<COMMA>> \o Token(f, 2) ELSE Token(f, 1)

\* after the reply of a WriteMemory, the reply of the ReadMemory of the same
\* addr and size
read_back ==
    /\ pc = "replied"
    /\ parsed.command.kind = "WriteMemory"
    /\ parsed' = commands(<<LOWER_M>>, ReadBackArgs(parsed.command.fields))
    /\ \E overflow_checks \in BOOLEAN :
          /\ WriteReturns(parsed.command.fields, overflow_checks)
          /\ Answered(Commands_response(
                          commands(<<LOWER_M>>, ReadBackArgs(parsed.command.fields)).command,
                          Sink, target, overflow_checks),
                      "read_back")
    /\ ReplyFrame

NextSession ==
    \/ exec_packet_response
    \/ exec_packet_command
    \/ reply_command
    \/ reply_again
    \/ read_back

SpecSession == InitSession /\ [][NextSession]_vars

\* the hex digits of d in lowercase
Lowercase(d) == [i \in 1..Len(d) |-> LowerHexDigits[HexValue(d[i]) + 1]]

\* f is `addr,size:D` with size >= 1, addr + size within the memory and D of
\* 2 * size hex digits
InRangeWrite(f) ==
    /\ HasToken(f, 1) /\ HasToken(f, 2) /\ HasToken(f, 3)
    /\ Token(f, 1) # <<>> /\ IsHexNumber(Token(f, 1))
    /\ Token(f, 2) # <<>> /\ IsHexNumber(Token(f, 2))
    /\ Capped(Token(f, 2), MemoryLen + 1) >= 1
    /\ Capped(Token(f, 1), MemoryLen + 1) + Capped(Token(f, 2), MemoryLen + 1) <= MemoryLen
    /\ Len(Token(f, 3)) = 2 * Capped(Token(f, 2), MemoryLen + 1)
    /\ \A i \in 1..Len(Token(f, 3)) : HexValue(Token(f, 3)[i]) < 16

(***************************************************************************)
(* C24: for addr and size >= 1 with addr + size <= 512 and D of 2 * size   *)
(* hex digits, the reply of `M addr,size:D` leaves `$OK#9a` in the sink,   *)
(* and the reply of `m addr,size` after it the frame whose payload is D in *)
(* lowercase.                                                              *)
(***************************************************************************)
C24_WriteThenRead ==
    InRangeWrite(Tail(packet)) =>
        /\ (pc = "replied" /\ parsed.command.kind = "WriteMemory") =>
              /\ reply.ok
              /\ Wire = <<DOLLAR, 79, 75, HASH, 57, 97>>
        /\ pc = "read_back" =>
              /\ reply.ok
              /\ Wire = FrameOf(Lowercase(Token(Tail(packet), 3)))

(***************************************************************************)
(* C25: the reply of ReadMemory with addr and size hex numbers of up to a  *)
(* machine word, addr + size beyond the word included, is never rejected   *)
(* and never panics: into a sink that refuses no write it emits the frame  *)
(* of 2 * max(0, min(size, 512 - addr)) digits (all `0` after new()).      *)
(***************************************************************************)
C25_ReadsClipped ==
    LET f == Replying.fields
    IN  (/\ pc \in {"replied", "panic"}
         /\ Replying.kind = "ReadMemory"
         /\ stream.refused = 0
         /\ HasToken(f, 1) /\ HasToken(f, 2)
         /\ Token(f, 1) # <<>> /\ IsHexNumber(Token(f, 1))
         /\ Token(f, 2) # <<>> /\ IsHexNumber(Token(f, 2))) =>
            /\ pc = "replied"
            /\ reply.ok
            /\ Wire = FrameOf([i \in 1..(2 * Readable(Token(f, 1), Token(f, 2))) |-> DIGIT_0])

(***************************************************************************)
(* C26: a later call of parse_packet on the same parser, with the cursor   *)
(* at a frame `$` payload `#` hh that ends the input, hh the sum of that   *)
(* frame's own payload bytes (other than `$`), returns Acknowledge         *)
(* whatever stands in the input before the frame.                          *)
(***************************************************************************)
C26_LaterFrameAcknowledged ==
    (/\ pc = "returned"
     /\ start > 0
     /\ WellFormed(SubSeq(packet, start + 1, Len(packet)))) =>
        parsed.response = Acknowledge

\* the variants that emit bytes
EmittingKinds == FramedKinds \cup {"Acknowledge", "Retransmit"}

\* the variants that emit bytes and leave the target as it is
ReadOnlyKinds == {"NotImplemented", "Reason", "ReadRegister", "ReadMemory"}

\* what the reply of v puts into a fresh sink, the target being t
WireOutput(v, t) == Commands_response(v, NewStream, t, FALSE).stream.buffer

\* the value whose reply was the last one of the session
Replier == IF pc = "acknowledged" THEN parsed.response ELSE Replying

(***************************************************************************)
(* C27: every variant that emits bytes resets the sink before it writes:   *)
(* after a reply that went well and drained nothing, the sink holds        *)
(* exactly what the reply of that variant puts into a fresh sink, whatever *)
(* it held before: the `+` of the Acknowledge is gone after the reply of   *)
(* the command, and the reply of the same read-only command once more      *)
(* leaves the contents of the sink as they were.                           *)
(***************************************************************************)
C27_ResetBeforeWriting ==
    /\ [](/\ (/\ pc \in {"acknowledged", "replied", "again", "read_back"}
              /\ reply.ok
              /\ Replier.kind \in EmittingKinds
              /\ stream.sent = <<>>) =>
                 stream.buffer = WireOutput(Replier, target)
          /\ (/\ pc = "replied"
              /\ reply.ok
              /\ Replier.kind \in FramedKinds
              /\ stream.sent = <<>>) =>
                 /\ stream.buffer[1] = DOLLAR
                 /\ \A i \in 1..Len(stream.buffer) : stream.buffer[i] # PLUS)
    /\ [][(/\ pc = "replied"
           /\ pc' = "again"
           /\ reply.ok
           /\ reply'.ok
           /\ Replying.kind \in ReadOnlyKinds
           /\ stream.sent = <<>>
           /\ stream'.sent = <<>>) =>
              stream'.buffer = stream.buffer]_vars

\* the registers read after the Acknowledge: the `+` is gone
C27_Witness ==
    /\ pc = "replied"
    /\ parsed.response = Acknowledge
    /\ Replying.kind = "ReadRegister"
    /\ reply = Ok(309)
    /\ Len(stream.buffer) = 308
    /\ stream.buffer[1] = DOLLAR

\* the registers read once more
C27_WitnessAgain ==
    /\ pc = "again"
    /\ Replying.kind = "ReadRegister"
    /\ reply.ok
    /\ Len(stream.buffer) = 308

\* the variants that emit nothing
SilentKinds == {"NoCommand", "Unsupported", "RetransmitLast", "AcknowledgeLast"}

(***************************************************************************)
(* C28: the reply of NoCommand, Unsupported, RetransmitLast or             *)
(* AcknowledgeLast returns 0 and leaves the sink (its contents, position   *)
(* and running checksum, what was drained included) and the target as they *)
(* were: the sink is not reset.                                            *)
(***************************************************************************)
C28_SilentVariants ==
    [][(/\ pc = "idle"
        /\ pc' = "replied"
        /\ parsed'.command = None
        /\ parsed'.response.kind \in SilentKinds) =>
           /\ reply' = Ok(0)
           /\ stream' = stream
           /\ target' = target]_vars

\* Unsupported replied into a full sink, which is still full
C28_Witness ==
    /\ pc = "replied"
    /\ parsed.command = None
    /\ parsed.response.kind = "Unsupported"
    /\ reply = Ok(0)
    /\ StreamPos(stream) = StreamLen
    /\ stream.chksm = StreamLen * LOWER_F

\* the errors of a memory command whose arguments are refused
ArgumentErrors ==
    {Err("InsufficientArguments"), Err("BadNumber"), Err("LengthMismatch")}

(***************************************************************************)
(* C29: a reply of ReadMemory or WriteMemory that fails with               *)
(* InsufficientArguments, BadNumber or LengthMismatch leaves the registers *)
(* and the memory of the target as they were, and the sink reset and       *)
(* holding exactly the start byte `$`: position 1, checksum 0.             *)
(***************************************************************************)
C29_RefusedArguments ==
    [][(/\ pc' \in {"replied", "again", "read_back"}
        /\ parsed'.command.kind \in {"ReadMemory", "WriteMemory"}
        /\ reply' \in ArgumentErrors) =>
           /\ target' = target
           /\ stream'.sent = <<>>
           /\ stream'.buffer = <<DOLLAR>>
           /\ StreamPos(stream') = 1
           /\ stream'.chksm = 0]_vars

\* `M0,2:ab`, one byte of data for a size of two, after the Acknowledge
C29_Witness ==
    /\ pc = "replied"
    /\ packet = <<UPPER_M, 48, COMMA, 50, COLON, 97, 98>>
    /\ parsed.response = Acknowledge
    /\ reply = Err("LengthMismatch")
    /\ stream.buffer = <<DOLLAR>>
    /\ stream.chksm = 0
    /\ Untouched

(***************************************************************************)
(* C30: a write the target rejects is atomic: after a reply of             *)
(* WriteRegisters that reports the error of write_registers (`$E00#a5`),   *)
(* and after a reply of WriteMemory that returns the CommandError or the   *)
(* AddressOutOfRange of write_memory, every register and every byte of the *)
(* memory is as it was before the call.                                    *)
(***************************************************************************)
C30_RejectedWriteAtomic ==
    /\ (/\ pc = "replied"
        /\ Replying.kind = "WriteRegister"
        /\ stream.buffer = <<DOLLAR, 69, 48, 48, HASH, 97, 53>>) => Untouched
    /\ (/\ pc = "replied"
        /\ Replying.kind = "WriteMemory"
        /\ reply \in {Err("CommandError"), Err("AddressOutOfRange")}) => Untouched

(***************************************************************************)
(* Termination.  The engine is single-threaded and does not suspend: once  *)
(* parse_packet is called, the steps inside the call are taken one after   *)
(* the other until the call is over.  When the caller calls is up to the   *)
(* caller.                                                                 *)
(***************************************************************************)
\* the steps of parse_packet after its first
InsideCall ==
    \/ parse_name
    \/ parse_token
    \/ parse_args
    \/ parse_until_end
    \/ expect_end
    \/ verify_and_dispatch

SpecTerminating == Init /\ [][Next]_vars /\ WF_vars(InsideCall)

\* a call of parse_packet is under way
Running == pc \in {"name", "token", "args", "until_end", "end", "chksm"}

(***************************************************************************)
(* C31: parsing always terminates: every call of parse_packet that is      *)
(* under way returns, after steps each of which moves the cursor forward   *)
(* or leaves the loop it is in.                                            *)
(***************************************************************************)
C31_ParsePacketReturns == Running ~> (pc = "returned")

=============================================================================
